---------------------------- MODULE Spec2Model ----------------------------
(***************************************************************************)
(* Model of the category classifier of src/financial_analyzer.py:          *)
(* FinancialAnalyzer.categorize_transaction_with_amount, the interactive   *)
(* learning fallback prompt_user_for_category, the keyword derivation      *)
(* extract_key_term_for_config, the in-memory and on-disk update           *)
(* update_config_with_new_keyword and load_categorization_config; and of   *)
(* the pipeline around it: the CSVProcessor classes, extract_merchant_name *)
(* and FinancialAnalyzer.load_and_process_data.                            *)
(*                                                                         *)
(* Spec is a run that classifies rows handed to categorize; LoadSpec is a  *)
(* run of load_and_process_data over a folder of CSV files.                *)
(*                                                                         *)
(* Python strings are sequences of one-character strings.  A Python value  *)
(* read from YAML is a record [tag, text]; tag "str" is a string.          *)
(***************************************************************************)
EXTENDS Integers, Sequences, FiniteSets, TLC

VARIABLES
    categorization_config, \* self.categorization_config (the RuleSet in memory)
    store,                 \* content of the file self.config_file
    pc,                    \* position of the run: idle, prompt, write, return, raised
    call,                  \* arguments (description, amount) of the current categorize call
    choice,                \* the stripped line last read by input()
    selected,              \* selected_category and key_term of the learning step
    out,                   \* the category column built by load_and_process_data
    ret,                   \* last value returned by categorize and the path that produced it
    reprompted,            \* the current fallback has read a line that is no selection
    wrote,                 \* outcome of the write attempted by the current learning step
    learnLog,              \* history of learning steps of this run
    folder,                \* self.csv_folder: whether it exists and the files in it
    phase,                 \* position of load_and_process_data
    pending,               \* the files of csv_files the loop has still to process
    failed,                \* the files whose processor raised
    all_data,              \* all_data: the transactions of the files processed
    combined_data,         \* self.combined_data: sorted, with the merchant names
    calls,                 \* the dates of the rows in the order categorize was called
    clean,                 \* no fallback of the run was interrupted and no write failed
    previous               \* what the run before this one, over the same folder, left

\* the variables of load_and_process_data
loadVars == <<folder, phase, pending, failed, all_data, combined_data, calls,
              clean, previous>>

vars == <<categorization_config, store, pc, call, choice, selected, out, ret,
          reprompted, wrote, learnLog, folder, phase, pending, failed, all_data,
          combined_data, calls, clean, previous>>

-----------------------------------------------------------------------------
(* Bounds of the model *)

\* number of rows classified in one run of load_and_process_data
MaxRows == 2

-----------------------------------------------------------------------------
(* Python string primitives *)

UpperLetters == <<"A","B","C","D","E","F","G","H","I","J","K","L","M",
                  "N","O","P","Q","R","S","T","U","V","W","X","Y","Z">>

LowerLetters == <<"a","b","c","d","e","f","g","h","i","j","k","l","m",
                  "n","o","p","q","r","s","t","u","v","w","x","y","z">>

Digits == {"0","1","2","3","4","5","6","7","8","9"}

Whitespace == {" "}

\* the lowercase letter of each uppercase letter
LowerOf == [c \in {UpperLetters[i] : i \in 1..Len(UpperLetters)} |->
              LowerLetters[CHOOSE i \in 1..Len(UpperLetters) : UpperLetters[i] = c]]

\* str.lower() on one character
LowerChar(c) == IF c \in DOMAIN LowerOf THEN LowerOf[c] ELSE c

\* str.lower()
Lower(s) == [i \in 1..Len(s) |-> LowerChar(s[i])]

\* s.startswith(p)
StartsWith(s, p) ==
    /\ Len(p) <= Len(s)
    /\ SubSeq(s, 1, Len(p)) = p

\* "k in s" for strings: k is a contiguous substring of s
Contains(s, k) ==
    \E i \in 0..(Len(s) - Len(k)) : SubSeq(s, i + 1, i + Len(k)) = k

\* s[n:]
DropFirst(s, n) == SubSeq(s, n + 1, Len(s))

\* s[:n]
TakeFirst(s, n) == SubSeq(s, 1, IF n < Len(s) THEN n ELSE Len(s))

\* str.strip()
RECURSIVE LStrip(_)
LStrip(s) ==
    IF s # <<>> /\ Head(s) \in Whitespace THEN LStrip(Tail(s)) ELSE s

RECURSIVE RStrip(_)
RStrip(s) ==
    IF s # <<>> /\ s[Len(s)] \in Whitespace
    THEN RStrip(SubSeq(s, 1, Len(s) - 1))
    ELSE s

Strip(s) == RStrip(LStrip(s))

\* str.split(): the maximal runs of non-whitespace characters, in order
RECURSIVE SplitFrom(_, _, _)
SplitFrom(s, i, word) ==
    IF i > Len(s)
    THEN IF word = <<>> THEN <<>> ELSE <<word>>
    ELSE IF s[i] \in Whitespace
         THEN IF word = <<>>
              THEN SplitFrom(s, i + 1, <<>>)
              ELSE <<word>> \o SplitFrom(s, i + 1, <<>>)
         ELSE SplitFrom(s, i + 1, Append(word, s[i]))

Split(s) == SplitFrom(s, 1, <<>>)

\* " ".join(words)
RECURSIVE JoinSpace(_)
JoinSpace(words) ==
    IF words = <<>> THEN <<>>
    ELSE IF Len(words) = 1 THEN words[1]
    ELSE words[1] \o <<" ">> \o JoinSpace(Tail(words))

\* str.isdigit()
IsDigit(s) == s # <<>> /\ \A i \in 1..Len(s) : s[i] \in Digits

\* a Python str value
Str(s) == [tag |-> "str", text |-> s]


-----------------------------------------------------------------------------
(* String constants of the source *)

\* the Costco source tag tested by categorize_transaction_with_amount
CostcoTag == <<"c", "o", "s", "t", "c", "o", "-">>

\* the amount above which a Costco transaction is "Shopping"
CostcoThreshold == 100

\* prefixes_to_remove of extract_key_term_for_config
KeyTermPrefixes == <<
    <<"s", "q", " ", "*">>,
    <<"t", "s", "t", "*">>,
    <<"s", "p", " ">>,
    <<"f", "s", "p", "*">>,
    <<"6", "6", "0", "2", "-">> >>

\* skip_words of extract_key_term_for_config
KeyTermSkipWords == {
    <<"i", "n", "c">>,
    <<"l", "l", "c">>,
    <<"c", "o", "m">>,
    <<"w", "w", "w">>,
    <<"p", "h", "o", "n", "e">>,
    <<"n", "u", "m", "b", "e", "r">> }

\* FinancialAnalyzer.AVAILABLE_CATEGORIES
AVAILABLE_CATEGORIES ==
    <<"Food", "Travel", "Shopping", "Utilities", "Healthcare",
      "Entertainment", "Services", "Payment">>

-----------------------------------------------------------------------------
(* The RuleSet: an insertion-ordered mapping from category to keyword list *)

\* a dict {"categories": ..., "default_category": ...}; hasDefault tells
\* whether the dict has the key "default_category"
Config(cats, dflt) ==
    [isNone |-> FALSE, hasDefault |-> TRUE, categories |-> cats, default_category |-> dflt]

\* the value None, which yaml.safe_load returns for an empty document
NoneConfig ==
    [isNone |-> TRUE, hasDefault |-> FALSE, categories |-> <<>>, default_category |-> ""]

Category(name, kws) == [name |-> name, keywords |-> kws]

\* the position of a key in the categories dict, 0 when absent
IndexOf(cats, name) ==
    IF \E i \in 1..Len(cats) : cats[i].name = name
    THEN CHOOSE i \in 1..Len(cats) : cats[i].name = name
    ELSE 0

\* any(keyword.lower() in desc_lower for keyword in keywords): "yes", "no",
\* or "error" when a keyword that is not a str is reached before a match
RECURSIVE AnyKeyword(_, _)
AnyKeyword(keywords, desc_lower) ==
    IF keywords = <<>> THEN "no"
    ELSE IF Head(keywords).tag # "str" THEN "error"
    ELSE IF Contains(desc_lower, Lower(Head(keywords).text)) THEN "yes"
    ELSE AnyKeyword(Tail(keywords), desc_lower)

\* the loop over categories.items(): the index of the first category one of
\* whose keywords matches, 0 when none matches, -1 when the loop raises
RECURSIVE FirstMatchFrom(_, _, _)
FirstMatchFrom(cats, desc_lower, i) ==
    IF i > Len(cats) THEN 0
    ELSE LET a == AnyKeyword(cats[i].keywords, desc_lower)
         IN  IF a = "yes" THEN i
             ELSE IF a = "error" THEN -1
             ELSE FirstMatchFrom(cats, desc_lower, i + 1)

\* a mutant of FirstMatch: the last matching category wins
LastMatch(cats, desc_lower) ==
    LET hits == {i \in 1..Len(cats) : AnyKeyword(cats[i].keywords, desc_lower) = "yes"}
    IN  IF hits = {} THEN 0 ELSE CHOOSE i \in hits : \A j \in hits : j <= i

FirstMatch(cats, desc_lower) == FirstMatchFrom(cats, desc_lower, 1)

\* a mutant of CostcoOverride: the threshold is inclusive
CostcoOverrideInclusive(desc_lower, amount) ==
    StartsWith(desc_lower, CostcoTag) /\ amount >= CostcoThreshold

\* the test of the Costco special case
CostcoOverride(desc_lower, amount) ==
    StartsWith(desc_lower, CostcoTag) /\ amount > CostcoThreshold

-----------------------------------------------------------------------------
(* extract_key_term_for_config *)

\* the loop over prefixes_to_remove: the first prefix that matches is removed
\* and the loop breaks
RECURSIVE RemovePrefix(_, _)
RemovePrefix(clean_desc, prefixes) ==
    IF prefixes = <<>> THEN clean_desc
    ELSE IF StartsWith(Lower(clean_desc), Lower(Head(prefixes)))
         THEN Strip(DropFirst(clean_desc, Len(Head(prefixes))))
         ELSE RemovePrefix(clean_desc, Tail(prefixes))

\* the loop over words[:3] collecting at most two meaningful words
RECURSIVE MeaningfulWords(_, _)
MeaningfulWords(words, acc) ==
    IF words = <<>> \/ Len(acc) >= 2 THEN acc
    ELSE LET word == Head(words)
         IN  IF Len(word) > 2 /\ ~IsDigit(word) /\ Lower(word) \notin KeyTermSkipWords
             THEN MeaningfulWords(Tail(words), Append(acc, Lower(word)))
             ELSE MeaningfulWords(Tail(words), acc)

extract_key_term_for_config(description) ==
    LET clean_desc == RemovePrefix(description, KeyTermPrefixes)
        words == Split(clean_desc)
        meaningful_words == MeaningfulWords(TakeFirst(words, 3), <<>>)
    IN  IF meaningful_words # <<>>
        THEN JoinSpace(meaningful_words)
        ELSE IF words # <<>>
             THEN Lower(words[1])
             ELSE TakeFirst(Lower(description), 10)

-----------------------------------------------------------------------------
(* update_config_with_new_keyword: the in-memory part *)

\* a mutant of AddKeyword: the keyword takes the place of the list
AddKeywordReplacing(config, category, keyword) ==
    LET cats0 == config.categories
        cats1 == IF IndexOf(cats0, category) = 0
                 THEN Append(cats0, Category(category, <<>>))
                 ELSE cats0
        i == IndexOf(cats1, category)
    IN  [config EXCEPT !.categories =
            [cats1 EXCEPT ![i].keywords = <<Str(keyword)>>]]

\* a mutant of AddKeyword: the keyword is appended without the membership test
AddKeywordAlways(config, category, keyword) ==
    LET cats0 == config.categories
        cats1 == IF IndexOf(cats0, category) = 0
                 THEN Append(cats0, Category(category, <<>>))
                 ELSE cats0
        i == IndexOf(cats1, category)
    IN  [config EXCEPT !.categories =
            [cats1 EXCEPT ![i].keywords = Append(@, Str(keyword))]]

\* a mutant of AddKeyword: new entries are placed first
AddKeywordFront(config, category, keyword) ==
    LET cats0 == config.categories
        cats1 == IF IndexOf(cats0, category) = 0
                 THEN <<Category(category, <<>>)>> \o cats0
                 ELSE cats0
        i == IndexOf(cats1, category)
    IN  [config EXCEPT !.categories =
            [cats1 EXCEPT ![i].keywords =
                IF \E j \in 1..Len(@) : @[j] = Str(keyword)
                THEN @
                ELSE <<Str(keyword)>> \o @]]

\* a mutant of AddKeyword: nothing is added
AddKeywordNever(config, category, keyword) == config

AddKeyword(config, category, keyword) ==
    LET cats0 == config.categories
        cats1 == IF IndexOf(cats0, category) = 0
                 THEN Append(cats0, Category(category, <<>>))
                 ELSE cats0
        i == IndexOf(cats1, category)
    IN  [config EXCEPT !.categories =
            [cats1 EXCEPT ![i].keywords =
                IF \E j \in 1..Len(@) : @[j] = Str(keyword)
                THEN @
                ELSE Append(@, Str(keyword))]]

-----------------------------------------------------------------------------
(* The rule store file: yaml.dump and yaml.safe_load *)

\* one line of the YAML document
Line(kind, name, scalar) == [kind |-> kind, name |-> name, scalar |-> scalar]

NoScalar == [style |-> "none", text |-> <<>>]

\* the file content: absent, text that is not YAML, or a document
MissingFile == [kind |-> "missing", lines |-> <<>>]

MalformedFile == [kind |-> "malformed", lines |-> <<>>]

Doc(lines) == [kind |-> "doc", lines |-> lines]

\* the value a plain (unquoted) scalar resolves to when the document is read:
\* digits are an int, nothing is null, anything else is the stripped string
ResolvePlain(text) ==
    IF Strip(text) = <<>> THEN [tag |-> "null", text |-> <<>>]
    ELSE IF IsDigit(Strip(text)) THEN [tag |-> "int", text |-> Strip(text)]
    ELSE Str(Strip(text))

\* a mutant of EmitScalar: every string is written plain
EmitScalarPlain(text) == [style |-> "plain", text |-> text]

\* the scalar yaml.dump writes for a str: plain when the plain text reads back
\* as the same str, single-quoted otherwise
EmitScalar(text) ==
    IF ResolvePlain(text) = Str(text)
    THEN [style |-> "plain", text |-> text]
    ELSE [style |-> "quoted", text |-> text]

\* the value of a scalar of the document
Resolve(scalar) ==
    IF scalar.style = "quoted" THEN Str(scalar.text) ELSE ResolvePlain(scalar.text)

\* the lines of one entry of the categories mapping
DumpCategory(cat) ==
    IF cat.keywords = <<>>
    THEN <<Line("category_empty", cat.name, NoScalar)>>
    ELSE <<Line("category", cat.name, NoScalar)>> \o
         [j \in 1..Len(cat.keywords) |->
            Line("item", "", EmitScalar(cat.keywords[j].text))]

RECURSIVE DumpCategories(_)
DumpCategories(cats) ==
    IF cats = <<>> THEN <<>>
    ELSE DumpCategory(Head(cats)) \o DumpCategories(Tail(cats))

\* the categories in the order sorted(keys) gives: used by the mutant of yaml_dump
RECURSIVE SortedByName(_)
SortedByName(cats) ==
    IF cats = <<>> THEN <<>>
    ELSE LET names == {cats[i].name : i \in 1..Len(cats)}
             \* AVAILABLE_CATEGORIES and the names of the default RuleSets, A to Z
             order == <<"Entertainment", "Food", "Healthcare", "Misc", "Other",
                        "Payment", "Services", "Shopping", "Transportation",
                        "Travel", "Utilities">>
             first == CHOOSE i \in 1..Len(order) :
                        /\ order[i] \in names
                        /\ \A j \in 1..(i - 1) : order[j] \notin names
             k == IndexOf(cats, order[first])
         IN  <<cats[k]>> \o
             SortedByName(SubSeq(cats, 1, k - 1) \o SubSeq(cats, k + 1, Len(cats)))

\* a mutant of yaml_dump: sort_keys left at its default, True
yaml_dump_sorted(config) ==
    <<Line("categories", "", NoScalar)>> \o
    DumpCategories(SortedByName(config.categories)) \o
    (IF config.hasDefault
     THEN <<Line("default_category", config.default_category, NoScalar)>>
     ELSE <<>>)

\* yaml.dump(config, f, default_flow_style=False, sort_keys=False)
yaml_dump(config) ==
    <<Line("categories", "", NoScalar)>> \o
    DumpCategories(config.categories) \o
    (IF config.hasDefault
     THEN <<Line("default_category", config.default_category, NoScalar)>>
     ELSE <<>>)

\* yaml.safe_load of a document with lines: the mapping built line by line
RECURSIVE ParseLines(_, _)
ParseLines(lines, config) ==
    IF lines = <<>> THEN config
    ELSE LET l == Head(lines)
             cats == config.categories
         IN  ParseLines(Tail(lines),
                CASE l.kind \in {"category", "category_empty"} ->
                        [config EXCEPT !.categories = Append(cats, Category(l.name, <<>>))]
                  [] l.kind = "item" ->
                        [config EXCEPT !.categories[Len(cats)].keywords =
                            Append(@, Resolve(l.scalar))]
                  [] l.kind = "default_category" ->
                        [config EXCEPT !.default_category = l.name, !.hasDefault = TRUE]
                  [] OTHER -> config)

yaml_safe_load(lines) ==
    IF lines = <<>> THEN NoneConfig
    ELSE ParseLines(lines, [Config(<<>>, "") EXCEPT !.hasDefault = FALSE])

\* the RuleSet returned when the file does not exist
DefaultConfig ==
    Config(<<
        Category("Food", <<
            Str(<<"r", "e", "s", "t", "a", "u", "r", "a", "n", "t">>),
            Str(<<"c", "a", "f", "e">>),
            Str(<<"f", "o", "o", "d">>) >>),
        Category("Transportation", <<
            Str(<<"u", "b", "e", "r">>),
            Str(<<"l", "y", "f", "t">>),
            Str(<<"g", "a", "s">>),
            Str(<<"p", "a", "r", "k", "i", "n", "g">>) >>),
        Category("Shopping", <<
            Str(<<"a", "m", "a", "z", "o", "n">>),
            Str(<<"s", "t", "o", "r", "e">>) >>),
        Category("Other", <<>>) >>,
        "Other")

\* the RuleSet returned when the file is not YAML
MinimalConfig == Config(<<Category("Other", <<>>)>>, "Other")

load_categorization_config(file) ==
    IF file.kind = "missing" THEN DefaultConfig
    ELSE IF file.kind = "malformed" THEN MinimalConfig
    ELSE yaml_safe_load(file.lines)

\* the try block of update_config_with_new_keyword: the file after the write,
\* which succeeds, fails in open() or fails after open() has truncated the file
\* a mutant of WriteFile: the RuleSet written is the one the file holds, read
\* again, where the file holds one, and not the one in memory
WriteFileStale(file, config, outcome) ==
    LET old == load_categorization_config(file)
    IN  IF outcome = "ok" THEN Doc(yaml_dump(IF old.isNone THEN config ELSE old))
        ELSE IF outcome = "open_failed" THEN file
        ELSE Doc(<<>>)

WriteFile(file, config, outcome) ==
    IF outcome = "ok" THEN Doc(yaml_dump(config))
    ELSE IF outcome = "open_failed" THEN file
    ELSE Doc(<<>>)

WriteOutcomes == {"ok", "open_failed", "write_failed"}

\* a mutant of ConfigAfterWrite: a write that failed takes the keyword back
ConfigRolledBack(config, category, keyword, outcome) ==
    LET i == IndexOf(config.categories, category)
        kws == config.categories[i].keywords
    IN  IF outcome = "ok" \/ i = 0 \/ kws = <<>> THEN config
        ELSE IF kws[Len(kws)] # Str(keyword) THEN config
        ELSE [config EXCEPT !.categories[i].keywords = SubSeq(kws, 1, Len(kws) - 1)]

\* the RuleSet in memory after the try block of update_config_with_new_keyword:
\* the except clause prints the error and leaves the RuleSet as it is
ConfigAfterWrite(config, category, keyword, outcome) == config

-----------------------------------------------------------------------------
(* categorize_transaction_with_amount *)

\* a mutant of categorize_transaction_with_amount: a matched merchant is
\* learned again
categorize_learning_on_match(config, description, amount) ==
    LET desc_lower == Lower(description)
        i == IF config.isNone THEN -1 ELSE FirstMatch(config.categories, desc_lower)
    IN  IF CostcoOverride(desc_lower, amount)
        THEN [path |-> "override", category |-> "Shopping", config |-> config]
        ELSE IF i < 0
        THEN [path |-> "raise", category |-> "", config |-> config]
        ELSE IF i > 0
        THEN [path |-> "rule", category |-> config.categories[i].name,
              config |-> AddKeyword(config, config.categories[i].name,
                                    extract_key_term_for_config(description))]
        ELSE [path |-> "prompt", category |-> "", config |-> config]

\* the path taken, the category returned and the RuleSet left in memory; path
\* "prompt" hands over to prompt_user_for_category, path "raise" is the
\* TypeError or AttributeError of a RuleSet that is not a mapping of strings
categorize_transaction_with_amount(config, description, amount) ==
    LET desc_lower == Lower(description)
        i == IF config.isNone THEN -1 ELSE FirstMatch(config.categories, desc_lower)
    IN  IF CostcoOverride(desc_lower, amount)
        THEN [path |-> "override", category |-> "Shopping", config |-> config]
        ELSE IF i < 0
        THEN [path |-> "raise", category |-> "", config |-> config]
        ELSE IF i > 0
        THEN [path |-> "rule", category |-> config.categories[i].name, config |-> config]
        ELSE [path |-> "prompt", category |-> "", config |-> config]

-----------------------------------------------------------------------------
(* prompt_user_for_category *)

DigitSeq == <<"0", "1", "2", "3", "4", "5", "6", "7", "8", "9">>

DigitValue(c) == (CHOOSE i \in 1..Len(DigitSeq) : DigitSeq[i] = c) - 1

RECURSIVE DigitsValue(_, _)
DigitsValue(s, acc) ==
    IF s = <<>> THEN acc ELSE DigitsValue(Tail(s), acc * 10 + DigitValue(Head(s)))

\* int(text): ok is FALSE for the ValueError
ParseInt(text) ==
    IF IsDigit(text)
    THEN [ok |-> TRUE, value |-> DigitsValue(text, 0)]
    ELSE IF text # <<>> /\ Head(text) = "-" /\ IsDigit(Tail(text))
    THEN [ok |-> TRUE, value |-> 0 - DigitsValue(Tail(text), 0)]
    ELSE IF text # <<>> /\ Head(text) = "+" /\ IsDigit(Tail(text))
    THEN [ok |-> TRUE, value |-> DigitsValue(Tail(text), 0)]
    ELSE [ok |-> FALSE, value |-> 0]

\* seq[idx] of a Python list, for an index the list accepts
PyIndex(seq, idx) == IF idx >= 0 THEN seq[idx + 1] ELSE seq[Len(seq) + idx + 1]

\* a mutant of ValidChoice: the lower bound of the range test is missing
ValidChoiceNoLowerBound(choice_idx) ==
    /\ choice_idx < Len(AVAILABLE_CATEGORIES)
    /\ choice_idx >= 0 - Len(AVAILABLE_CATEGORIES)

\* 0 <= choice_idx < len(self.AVAILABLE_CATEGORIES)
ValidChoice(choice_idx) ==
    0 <= choice_idx /\ choice_idx < Len(AVAILABLE_CATEGORIES)

\* a mutant of InterruptCategory: the literal of the message, not the setting
InterruptCategoryLiteral(config) == "Other"

\* a mutant of InterruptCategory: get("default_category") without the
\* fallback value, which gives nothing when the key is absent
InterruptCategoryNoFallback(config) == config.default_category

\* the value returned on KeyboardInterrupt:
\* self.categorization_config.get("default_category", "Other")
InterruptCategory(config) ==
    IF config.hasDefault THEN config.default_category ELSE "Other"

\* a mutant of AfterSelection: the category is returned without the write
AfterSelectionNoWrite == "return"

\* where prompt_user_for_category goes after the in-memory update
AfterSelection == "write"

\* one pass of the while loop for a line read by input(): next is "prompt" when
\* the loop continues, AfterSelection when a category was selected
prompt_user_for_category(config, description, line) ==
    LET stripped == Strip(line)
        parsed == ParseInt(stripped)
        choice_idx == parsed.value - 1
    IN  IF stripped = <<>> \/ ~parsed.ok \/ ~ValidChoice(choice_idx)
        THEN [next |-> "prompt", category |-> "", key_term |-> <<>>, config |-> config]
        ELSE LET selected_category == PyIndex(AVAILABLE_CATEGORIES, choice_idx)
                 key_term == extract_key_term_for_config(description)
             IN  [next |-> AfterSelection,
                  category |-> selected_category,
                  key_term |-> key_term,
                  config |-> AddKeyword(config, selected_category, key_term)]

-----------------------------------------------------------------------------
(* CSV files and the values of their cells *)

\* a cell of a DataFrame: a str, a number, NaN (an empty cell), a date or NaT
TextCell(s) == [tag |-> "str", text |-> s, value |-> 0]

NumCell(n) == [tag |-> "num", text |-> <<>>, value |-> n]

NaNCell == [tag |-> "nan", text |-> <<>>, value |-> 0]

DateCell(d) == [tag |-> "date", text |-> <<>>, value |-> d]

NaTCell == [tag |-> "nat", text |-> <<>>, value |-> 0]

\* str(value) for the values a description cell holds
PyStr(cell) == IF cell.tag = "str" THEN cell.text ELSE <<"n", "a", "n">>

\* the result of a call that raised
Raised == [ok |-> FALSE, value |-> <<>>]

\* the result of a call that returned value
Returned(value) == [ok |-> TRUE, value |-> value]

\* float(value): a number, NaN for an empty cell, ValueError for other text
PyFloat(cell) ==
    IF cell.tag \in {"num", "nan"} THEN Returned(cell) ELSE Raised

\* x * multiplier on floats
Times(cell, multiplier) ==
    IF cell.tag = "nan" THEN NaNCell ELSE NumCell(cell.value * multiplier)

\* Series.fillna(0) on one cell
FillNa0(cell) == IF cell.tag = "nan" THEN NumCell(0) ELSE cell

\* pd.to_datetime on one cell of the date column: a date for a cell that holds
\* the text of day number d, NaT for an empty cell, an error for other text
ToDatetime(cell) ==
    IF cell.tag = "num" THEN Returned(DateCell(cell.value))
    ELSE IF cell.tag = "nan" THEN Returned(NaTCell)
    ELSE IF cell.tag \in {"date", "nat"} THEN Returned(cell)
    ELSE Raised

\* a file that pd.read_csv cannot read
UnreadableFile == [readable |-> FALSE, columns |-> {}, rows |-> <<>>]

\* a file with a header row and data rows; a row maps each column to a cell
CsvFile(columns, rows) == [readable |-> TRUE, columns |-> columns, rows |-> rows]

-----------------------------------------------------------------------------
(* CSVProcessor and its subclasses *)

CostcoPattern == <<"c", "o", "s", "t", "c", "o">>

CitiCSVProcessor ==
    [cls |-> "CitiCSVProcessor",
     date_column_name |-> "Date",
     description_column_name |-> "Description",
     amount_column_name |-> "Amount",
     amount_multiplier |-> 1,
     skip_patterns |-> <<CostcoPattern>>]

SmartlyCSVProcessor ==
    [cls |-> "SmartlyCSVProcessor",
     date_column_name |-> "Date",
     description_column_name |-> "Name",
     amount_column_name |-> "Amount",
     amount_multiplier |-> -1,
     skip_patterns |-> <<CostcoPattern>>]

CostcoCSVProcessor ==
    [cls |-> "CostcoCSVProcessor",
     date_column_name |-> "date",
     description_column_name |-> "description",
     amount_column_name |-> "amount",
     amount_multiplier |-> 1,
     skip_patterns |-> <<>>]

\* a mutant of should_skip_transaction: the description is compared as written
should_skip_case_sensitive(processor, row) ==
    IF processor.skip_patterns = <<>> THEN FALSE
    ELSE IF processor.description_column_name \in DOMAIN row
    THEN LET description == PyStr(row[processor.description_column_name])
         IN  \E i \in 1..Len(processor.skip_patterns) :
                Contains(description, Lower(processor.skip_patterns[i]))
    ELSE FALSE

\* CSVProcessor._should_skip_transaction
should_skip_transaction(processor, row) ==
    IF processor.skip_patterns = <<>> THEN FALSE
    ELSE IF processor.description_column_name \in DOMAIN row
    THEN LET description == Lower(PyStr(row[processor.description_column_name]))
         IN  \E i \in 1..Len(processor.skip_patterns) :
                Contains(description, Lower(processor.skip_patterns[i]))
    ELSE FALSE

\* a canonical transaction: the dict returned by _extract_transaction_data
Transaction(date, description, amount) ==
    [date |-> date, description |-> description, amount |-> amount]

\* a mutant of extract_transaction_data: the multiplier is not applied
extract_without_multiplier(processor, row) ==
    IF ~({processor.date_column_name, processor.description_column_name,
          processor.amount_column_name} \subseteq DOMAIN row)
    THEN Raised
    ELSE LET amount == PyFloat(row[processor.amount_column_name])
         IN  IF ~amount.ok THEN Raised
             ELSE Returned(Transaction(
                    row[processor.date_column_name],
                    IF processor.cls = "CostcoCSVProcessor"
                    THEN TextCell(<<"C", "O", "S", "T", "C", "O", "-">> \o
                                  PyStr(row[processor.description_column_name]))
                    ELSE row[processor.description_column_name],
                    amount.value))

\* CSVProcessor._extract_transaction_data and the override of
\* CostcoCSVProcessor, which puts "COSTCO-" before the description; a column
\* the row lacks is a KeyError, an amount that is no number a ValueError
extract_transaction_data(processor, row) ==
    IF ~({processor.date_column_name, processor.description_column_name,
          processor.amount_column_name} \subseteq DOMAIN row)
    THEN Raised
    ELSE LET amount == PyFloat(row[processor.amount_column_name])
         IN  IF ~amount.ok THEN Raised
             ELSE Returned(Transaction(
                    row[processor.date_column_name],
                    IF processor.cls = "CostcoCSVProcessor"
                    THEN TextCell(<<"C", "O", "S", "T", "C", "O", "-">> \o
                                  PyStr(row[processor.description_column_name]))
                    ELSE row[processor.description_column_name],
                    Times(amount.value, processor.amount_multiplier)))

\* CitiCSVProcessor._consolidate_columns on one row: Amount is Debit plus
\* Credit, an empty cell counting as 0
ConsolidateRow(row) ==
    [c \in DOMAIN row \cup {"Amount"} |->
        IF c = "Amount"
        THEN NumCell(FillNa0(row["Debit"]).value + FillNa0(row["Credit"]).value)
        ELSE row[c]]

\* _consolidate_columns: the identity but for CitiCSVProcessor, where columns
\* Debit and Credit must exist and hold numbers
consolidate_columns(processor, df) ==
    IF processor.cls # "CitiCSVProcessor" THEN Returned(df)
    ELSE IF ~({"Debit", "Credit"} \subseteq df.columns) THEN Raised
    ELSE IF \E i \in 1..Len(df.rows) :
               \/ df.rows[i]["Debit"].tag \notin {"num", "nan"}
               \/ df.rows[i]["Credit"].tag \notin {"num", "nan"}
    THEN Raised
    ELSE Returned([df EXCEPT !.columns = @ \cup {"Amount"},
                             !.rows = [i \in 1..Len(df.rows) |-> ConsolidateRow(df.rows[i])]])

\* CSVProcessor._prepare_dataframe: the date column, when the file has it, is
\* converted as a whole, then the columns are consolidated
prepare_dataframe(processor, df) ==
    LET col == processor.date_column_name
    IN  IF col \in df.columns
        THEN IF \E i \in 1..Len(df.rows) : ~ToDatetime(df.rows[i][col]).ok
             THEN Raised
             ELSE consolidate_columns(processor,
                    [df EXCEPT !.rows = [i \in 1..Len(df.rows) |->
                        [df.rows[i] EXCEPT ![col] = ToDatetime(@).value]]])
        ELSE consolidate_columns(processor, df)

\* a mutant of ProcessRows: the transactions read before the row that raises
\* are returned
RECURSIVE ProcessRowsPartial(_, _, _, _)
ProcessRowsPartial(processor, rows, i, processed) ==
    IF i > Len(rows) THEN Returned(processed)
    ELSE IF should_skip_transaction(processor, rows[i])
    THEN ProcessRowsPartial(processor, rows, i + 1, processed)
    ELSE LET transaction_data == extract_transaction_data(processor, rows[i])
         IN  IF ~transaction_data.ok THEN Returned(processed)
             ELSE ProcessRowsPartial(processor, rows, i + 1,
                                     Append(processed, transaction_data.value))

\* the loop of process over the rows from row i on: the transactions of the
\* rows not skipped, or the error of the first row that raises
RECURSIVE ProcessRows(_, _, _, _)
ProcessRows(processor, rows, i, processed) ==
    IF i > Len(rows) THEN Returned(processed)
    ELSE IF should_skip_transaction(processor, rows[i])
    THEN ProcessRows(processor, rows, i + 1, processed)
    ELSE LET transaction_data == extract_transaction_data(processor, rows[i])
         IN  IF ~transaction_data.ok THEN Raised
             ELSE ProcessRows(processor, rows, i + 1,
                              Append(processed, transaction_data.value))

\* CSVProcessor.process
process(processor, file) ==
    IF ~file.readable THEN Raised
    ELSE LET df == prepare_dataframe(processor, file)
         IN  IF ~df.ok THEN Raised
             ELSE ProcessRows(processor, df.value.rows, 1, <<>>)

-----------------------------------------------------------------------------
(* extract_merchant_name *)

\* the uppercase letter of each lowercase letter
UpperOf == [c \in {LowerLetters[i] : i \in 1..Len(LowerLetters)} |->
              UpperLetters[CHOOSE i \in 1..Len(LowerLetters) : LowerLetters[i] = c]]

\* str.upper() on one character
UpperChar(c) == IF c \in DOMAIN UpperOf THEN UpperOf[c] ELSE c

\* the character is a letter
IsCased(c) == c \in DOMAIN UpperOf \/ c \in DOMAIN LowerOf

\* str.title(): a letter is uppercase when no letter precedes it, lowercase
\* when one does
Title(s) ==
    [i \in 1..Len(s) |->
        IF i > 1 /\ IsCased(s[i - 1]) THEN LowerChar(s[i]) ELSE UpperChar(s[i])]

\* str.isupper(): there is a letter and no letter is lowercase
IsUpper(s) ==
    /\ \E i \in 1..Len(s) : IsCased(s[i])
    /\ \A i \in 1..Len(s) : s[i] \notin DOMAIN UpperOf

\* one branch of the if/elif chain: the name returned when every text of all
\* and, unless any is empty, one text of any is in the lowercased description
MerchantRule(all, any, name) == [all |-> all, any |-> any, name |-> name]

\* the if/elif chain of known merchants, in the order of the source; the
\* nested test under "spokane" is three branches in its order
KnownMerchants == <<
    MerchantRule({<<"t", "e", "s", "l", "a">>},
                 {<<"s", "u", "p", "e", "r", "c", "h", "a", "r", "g", "e", "r">>, <<"c", "h", "a", "r", "g", "e">>},
                 <<"T", "E", "S", "L", "A", " ", "C", "h", "a", "r", "g", "i", "n", "g">>),
    MerchantRule({},
                 {<<"b", "l", "i", "n", "k", " ", "c", "h", "a", "r", "g", "i", "n", "g">>, <<"b", "l", "i", "n", "k">>},
                 <<"B", "l", "i", "n", "k", " ", "C", "h", "a", "r", "g", "i", "n", "g">>),
    MerchantRule({<<"a", "m", "a", "z", "o", "n">>},
                 {},
                 <<"A", "M", "A", "Z", "O", "N">>),
    MerchantRule({<<"s", "t", "a", "r", "b", "u", "c", "k", "s">>},
                 {},
                 <<"S", "T", "A", "R", "B", "U", "C", "K", "S">>),
    MerchantRule({<<"d", "e", "l", "t", "a">>, <<"a", "i", "r">>},
                 {},
                 <<"D", "E", "L", "T", "A", " ", "A", "i", "r", "l", "i", "n", "e", "s">>),
    MerchantRule({<<"u", "b", "e", "r">>},
                 {},
                 <<"U", "B", "E", "R">>),
    MerchantRule({<<"l", "y", "f", "t">>},
                 {},
                 <<"L", "Y", "F", "T">>),
    MerchantRule({<<"s", "a", "f", "e", "w", "a", "y">>},
                 {},
                 <<"S", "A", "F", "E", "W", "A", "Y">>),
    MerchantRule({<<"q", "f", "c">>},
                 {},
                 <<"Q", "F", "C">>),
    MerchantRule({<<"a", "t", "&", "t">>},
                 {},
                 <<"A", "T", "&", "T">>),
    MerchantRule({<<"t", "&", "t">>, <<"s", "u", "p", "e", "r", "m", "a", "r", "k", "e", "t">>},
                 {},
                 <<"T", "&", "T", " ", "S", "u", "p", "e", "r", "m", "a", "r", "k", "e", "t">>),
    MerchantRule({<<"p", "u", "g", "e", "t", " ", "s", "o", "u", "n", "d", " ", "e", "n", "e", "r", "g", "y">>},
                 {},
                 <<"P", "u", "g", "e", "t", " ", "S", "o", "u", "n", "d">>),
    MerchantRule({<<"p", "r", "o", "g", "r", "e", "s", "s", "i", "v", "e">>, <<"i", "n", "s", "u", "r", "a", "n", "c", "e">>},
                 {},
                 <<"P", "r", "o", "g", "r", "e", "s", "s", "i", "v", "e", " ", "I", "n", "s", "u", "r", "a", "n", "c", "e">>),
    MerchantRule({<<"r", "e", "i">>},
                 {<<"r", "e", "i", " ">>, <<"r", "e", "i", ".", "c", "o", "m">>},
                 <<"R", "E", "I">>),
    MerchantRule({<<"b", "e", "s", "t", " ", "b", "u", "y">>},
                 {},
                 <<"B", "e", "s", "t", " ", "B", "u", "y">>),
    MerchantRule({<<"t", "a", "r", "g", "e", "t">>},
                 {},
                 <<"T", "a", "r", "g", "e", "t">>),
    MerchantRule({<<"h", "o", "m", "e", " ", "d", "e", "p", "o", "t">>},
                 {},
                 <<"H", "o", "m", "e", " ", "D", "e", "p", "o", "t">>),
    MerchantRule({<<"i", "k", "e", "a">>},
                 {},
                 <<"I", "K", "E", "A">>),
    MerchantRule({<<"u", "s", "c", "i", "s">>},
                 {},
                 <<"U", "S", "C", "I", "S">>),
    MerchantRule({<<"u", "s", " ", "t", "r", "e", "a", "s">>},
                 {<<"t", "a", "x">>, <<"p", "y", "m", "t">>},
                 <<"U", "S", " ", "T", "r", "e", "a", "s", "u", "r", "y">>),
    MerchantRule({},
                 {<<"a", "u", "t", "o", "p", "a", "y">>, <<"p", "a", "y", "m", "e", "n", "t">>},
                 <<"P", "a", "y", "m", "e", "n", "t">>),
    MerchantRule({<<"w", "a", "l", "g", "r", "e", "e", "n", "s">>},
                 {},
                 <<"W", "A", "L", "G", "R", "E", "E", "N", "S">>),
    MerchantRule({<<"c", "v", "s">>},
                 {},
                 <<"C", "V", "S">>),
    MerchantRule({<<"s", "h", "e", "l", "l">>},
                 {},
                 <<"S", "H", "E", "L", "L">>),
    MerchantRule({<<"c", "h", "e", "v", "r", "o", "n">>},
                 {},
                 <<"C", "H", "E", "V", "R", "O", "N">>),
    MerchantRule({<<"a", "r", "c", "o">>},
                 {},
                 <<"A", "R", "C", "O">>),
    MerchantRule({<<"m", "c", "d", "o", "n", "a", "l", "d">>},
                 {},
                 <<"M", "c", "D", "o", "n", "a", "l", "d", "s">>),
    MerchantRule({<<"s", "u", "b", "w", "a", "y">>},
                 {},
                 <<"S", "U", "B", "W", "A", "Y">>),
    MerchantRule({<<"t", "r", "a", "d", "e", "r", " ", "j", "o", "e">>},
                 {},
                 <<"T", "r", "a", "d", "e", "r", " ", "J", "o", "e", "s">>),
    MerchantRule({<<"w", "h", "o", "l", "e", " ", "f", "o", "o", "d", "s">>},
                 {},
                 <<"W", "h", "o", "l", "e", " ", "F", "o", "o", "d", "s">>),
    MerchantRule({},
                 {<<"w", "a", "l", "m", "a", "r", "t">>, <<"w", "m", " ", "s", "u", "p", "e", "r", "c", "e", "n", "t", "e", "r">>},
                 <<"W", "A", "L", "M", "A", "R", "T">>),
    MerchantRule({},
                 {<<"f", "r", "e", "d", " ", "m", "e", "y", "e", "r">>, <<"f", "r", "e", "d", "-", "m", "e", "y", "e", "r">>},
                 <<"F", "r", "e", "d", " ", "M", "e", "y", "e", "r">>),
    MerchantRule({<<"g", "o", "o", "d", "w", "i", "l", "l">>},
                 {},
                 <<"G", "O", "O", "D", "W", "I", "L", "L">>),
    MerchantRule({<<"n", "e", "t", "f", "l", "i", "x">>},
                 {},
                 <<"N", "E", "T", "F", "L", "I", "X">>),
    MerchantRule({<<"s", "p", "o", "t", "i", "f", "y">>},
                 {},
                 <<"S", "P", "O", "T", "I", "F", "Y">>),
    MerchantRule({<<"a", "p", "p", "l", "e">>},
                 {<<"s", "t", "o", "r", "e">>, <<"i", "t", "u", "n", "e", "s">>},
                 <<"A", "p", "p", "l", "e", " ", "S", "t", "o", "r", "e">>),
    MerchantRule({<<"g", "o", "o", "g", "l", "e">>},
                 {},
                 <<"G", "O", "O", "G", "L", "E">>),
    MerchantRule({<<"m", "i", "c", "r", "o", "s", "o", "f", "t">>},
                 {},
                 <<"M", "I", "C", "R", "O", "S", "O", "F", "T">>),
    MerchantRule({<<"t", "o", "o", " ", "g", "o", "o", "d", " ", "t", "o", " ", "g", "o">>},
                 {},
                 <<"T", "o", "o", " ", "G", "o", "o", "d">>),
    MerchantRule({<<"s", "u", "m", "m", "i", "t">>, <<"s", "n", "o", "q", "u", "a", "l", "m", "i", "e">>},
                 {},
                 <<"S", "u", "m", "m", "i", "t", " ", "S", "n", "o", "q", "u", "a", "l", "m", "i", "e">>),
    MerchantRule({<<"c", "l", "a", "i", "r", "e">>},
                 {},
                 <<"C", "L", "A", "I", "R", "E">>),
    MerchantRule({<<"t", "e", "n", " ", "s", "e", "c", "o", "n", "d", "s">>},
                 {},
                 <<"T", "e", "n", " ", "S", "e", "c", "o", "n", "d", "s">>),
    MerchantRule({<<"l", "e", "g", "o", "l", "a", "n", "d">>},
                 {},
                 <<"L", "E", "G", "O", "L", "A", "N", "D">>),
    MerchantRule({<<"d", "o", "u", "g", "h", " ", "z", "o", "n", "e">>},
                 {},
                 <<"D", "o", "u", "g", "h", " ", "Z", "o", "n", "e">>),
    MerchantRule({},
                 {<<"p", "a", "y", " ", "b", "y", " ", "p", "h", "o", "n", "e">>, <<"p", "a", "y", "b", "y", "p", "h", "o", "n", "e">>},
                 <<"P", "a", "r", "k", "i", "n", "g">>),
    MerchantRule({<<"s", "p", "o", "k", "a", "n", "e">>},
                 {<<"h", "o", "t", "e", "l">>, <<"c", "l", "u", "b">>},
                 <<"S", "p", "o", "k", "a", "n", "e", " ", "C", "l", "u", "b">>),
    MerchantRule({<<"s", "p", "o", "k", "a", "n", "e">>},
                 {<<"r", "e", "s", "t", "a", "u", "r", "a", "n", "t">>, <<"k", "i", "t", "c", "h", "e", "n">>},
                 <<"S", "p", "o", "k", "a", "n", "e", " ", "R", "e", "s", "t", "a", "u", "r", "a", "n", "t">>),
    MerchantRule({<<"s", "p", "o", "k", "a", "n", "e">>},
                 {},
                 <<"S", "p", "o", "k", "a", "n", "e", " ", "B", "u", "s", "i", "n", "e", "s", "s">>) >>

\* the predicate of one branch
RuleHolds(rule, desc_lower) ==
    /\ \A a \in rule.all : Contains(desc_lower, a)
    /\ rule.any = {} \/ \E a \in rule.any : Contains(desc_lower, a)

\* a mutant of FirstRuleFrom: the last branch that holds is taken
LastRuleFrom(desc_lower, i) ==
    LET holding == {n \in i..Len(KnownMerchants) : RuleHolds(KnownMerchants[n], desc_lower)}
    IN  IF holding = {} THEN 0 ELSE CHOOSE n \in holding : \A m \in holding : m <= n

\* the index of the first branch of the chain that holds from branch i on, 0
\* when the else branch is taken
RECURSIVE FirstRuleFrom(_, _)
FirstRuleFrom(desc_lower, i) ==
    IF i > Len(KnownMerchants) THEN 0
    ELSE IF RuleHolds(KnownMerchants[i], desc_lower) THEN i
    ELSE FirstRuleFrom(desc_lower, i + 1)

\* prefixes_to_remove of extract_merchant_name
MerchantPrefixes == <<
    <<"S", "Q", " ", "*">>,
    <<"T", "S", "T", "*">>,
    <<"S", "P", " ">>,
    <<"F", "S", "P", "*">>,
    <<"6", "6", "0", "2", "-">> >>

\* the words of extract_merchant_name that are skipped as location words
MerchantSkipWords == {
    <<"p", "h", "o", "n", "e">>,
    <<"n", "u", "m", "b", "e", "r", ":">>,
    <<"f", "o", "l", "i", "o">>,
    <<"a", "r", "r", "i", "v", "e", ":">>,
    <<"d", "e", "p", "a", "r", "t", ":">>,
    <<"w", "w", "w">>,
    <<"c", "o", "m">>,
    <<"e", "c", "o", "m">> }

\* the loop over prefixes_to_remove, which has no break: every prefix is
\* tried in turn on what the earlier ones left
RECURSIVE RemoveMerchantPrefixes(_, _)
RemoveMerchantPrefixes(clean_desc, prefixes) ==
    IF prefixes = <<>> THEN clean_desc
    ELSE RemoveMerchantPrefixes(
            IF StartsWith(clean_desc, Head(prefixes))
            THEN Strip(DropFirst(clean_desc, Len(Head(prefixes))))
            ELSE clean_desc,
            Tail(prefixes))

\* the word has a digit and one of "-", ".", "/"
IsPhoneLike(word) ==
    /\ \E i \in 1..Len(word) : word[i] \in Digits
    /\ \E i \in 1..Len(word) : word[i] \in {"-", ".", "/"}

\* a mutant of CleanWords: a word of one character is kept as well
RECURSIVE CleanWordsKeepingShort(_, _)
CleanWordsKeepingShort(words, clean_words) ==
    IF words = <<>> THEN clean_words
    ELSE LET word == Head(words)
         IN  IF IsPhoneLike(word) THEN CleanWordsKeepingShort(Tail(words), clean_words)
             ELSE IF Len(word) = 2 /\ IsUpper(word)
                  THEN CleanWordsKeepingShort(Tail(words), clean_words)
             ELSE IF Lower(word) \in MerchantSkipWords
                  THEN CleanWordsKeepingShort(Tail(words), clean_words)
             ELSE LET kept == Append(clean_words, Title(word))
                  IN  IF Len(kept) >= 2 THEN kept
                      ELSE CleanWordsKeepingShort(Tail(words), kept)

\* the loop over words collecting clean_words, left when two are collected
RECURSIVE CleanWords(_, _)
CleanWords(words, clean_words) ==
    IF words = <<>> THEN clean_words
    ELSE LET word == Head(words)
         IN  IF IsPhoneLike(word) THEN CleanWords(Tail(words), clean_words)
             ELSE IF Len(word) = 2 /\ IsUpper(word) THEN CleanWords(Tail(words), clean_words)
             ELSE IF Lower(word) \in MerchantSkipWords THEN CleanWords(Tail(words), clean_words)
             ELSE LET kept == IF Len(word) > 1
                              THEN Append(clean_words, Title(word))
                              ELSE clean_words
                  IN  IF Len(kept) >= 2 THEN kept ELSE CleanWords(Tail(words), kept)

\* the else branch of extract_merchant_name, for unknown merchants
MerchantFallback(raw_description) ==
    LET clean_desc == RemoveMerchantPrefixes(Strip(raw_description), MerchantPrefixes)
        words == Split(clean_desc)
        clean_words == CleanWords(words, <<>>)
    IN  IF clean_words # <<>>
        THEN JoinSpace(TakeFirst(clean_words, 2))
        ELSE LET first_word == IF words # <<>> THEN words[1] ELSE raw_description
             IN  TakeFirst(Title(first_word), 15)

extract_merchant_name(raw_description) ==
    LET desc_lower == Lower(raw_description)
        i == FirstRuleFrom(desc_lower, 1)
    IN  IF i > 0 THEN KnownMerchants[i].name ELSE MerchantFallback(raw_description)

\* extract_merchant_name applied to a cell of the description column: an empty
\* cell is a float, which has no lower()
NormalizeCell(cell) ==
    IF cell.tag = "str" THEN Returned(extract_merchant_name(cell.text)) ELSE Raised

-----------------------------------------------------------------------------
(* Inputs *)

\* merchant names passed to categorize
Descriptions == {
    <<"C", "O", "S", "T", "C", "O", "-", "T", "v">>,
    <<"T", "e", "a", " ", "S", "t", "o", "r", "e">>,
    <<"T", "e", "a">>,
    <<"Z", "e", "n", " ", "I", "n", "c", " ", "S", "p", "a">>,
    <<"T", "S", "T", "*", "P", "h", "o">>,
    <<"1", "2", "3">>,
    <<>> }

\* the rows classified: a Costco merchant with the amounts at and above the
\* threshold, another merchant above it, the other merchants with a small amount
Rows ==
    {[description |-> <<"C", "O", "S", "T", "C", "O", "-", "T", "v">>, amount |-> a] :
        a \in {CostcoThreshold, CostcoThreshold + 1}} \cup
    {[description |-> <<"T", "e", "a">>, amount |-> CostcoThreshold + 1]} \cup
    {[description |-> d, amount |-> 20] :
        d \in Descriptions \ {<<"C", "O", "S", "T", "C", "O", "-", "T", "v">>, <<"T", "e", "a">>}}

\* lines typed at the prompt: nothing, text, numbers out of range, selections
InputLines == {
    <<>>,
    <<"x">>,
    <<"0">>,
    <<"9">>,
    <<"1">>,
    <<" ", "3", " ">> }

\* a rule store written by an earlier run or by hand
StoredDoc == Doc(<<
    Line("categories", "", NoScalar),
    Line("category", "Food", NoScalar),
    Line("item", "", [style |-> "plain", text |-> <<"t", "e", "a">>]),
    Line("category", "Shopping", NoScalar),
    Line("item", "", [style |-> "plain", text |-> <<"t", "e", "a", " ", "s", "t", "o", "r", "e">>]),
    Line("item", "", [style |-> "plain", text |-> <<"s", "t", "o", "r", "e">>]),
    Line("category_empty", "Misc", NoScalar),
    Line("default_category", "Misc", NoScalar) >>)

\* a rule store edited by hand that has no default_category
NoDefaultDoc == Doc(<<
    Line("categories", "", NoScalar),
    Line("category", "Food", NoScalar),
    Line("item", "", [style |-> "plain", text |-> <<"t", "e", "a">>]) >>)

InitialFiles == {MissingFile, MalformedFile, Doc(<<>>), StoredDoc, NoDefaultDoc}

NoCall == [description |-> <<>>, amount |-> 0]

NoSelection == [category |-> "", key_term |-> <<>>]

\* the folder of a run that classifies rows handed to it
NoFolder == [exists |-> FALSE, files |-> <<>>]

\* no run of load_and_process_data has ended before this one
NoPrevious == [done |-> FALSE, clean |-> FALSE, store |-> MissingFile, categories |-> {}]

-----------------------------------------------------------------------------
(* The input folder *)

\* the keys of the default csv_processor_mapping
CitiName == "Year to date.CSV"

SmartlyName == "Credit Card - 1604_01-01-2025_08-29-2025.csv"

CostcoName == "costco_transactions.csv"

\* a file of the folder that no processor is registered for
OtherName == "notes.txt"

\* self.csv_processor_mapping
csv_processor_mapping ==
    [name \in {CitiName, SmartlyName, CostcoName} |->
        CASE name = CitiName -> CitiCSVProcessor
          [] name = SmartlyName -> SmartlyCSVProcessor
          [] name = CostcoName -> CostcoCSVProcessor]

\* no file of that name in the folder
NoFile == [readable |-> FALSE, columns |-> {"absent"}, rows |-> <<>>]

\* a Citi file: a purchase and, dated before it, a Costco purchase
CitiPurchases ==
    CsvFile({"Date", "Description", "Debit", "Credit"}, <<
        [c \in {"Date", "Description", "Debit", "Credit"} |->
            CASE c = "Date" -> NumCell(3)
              [] c = "Description" -> TextCell(<<"A", "M", "A", "Z", "O", "N", " ", "M", "K", "T", "P", "L">>)
              [] c = "Debit" -> NumCell(30)
              [] c = "Credit" -> NaNCell],
        [c \in {"Date", "Description", "Debit", "Credit"} |->
            CASE c = "Date" -> NumCell(1)
              [] c = "Description" -> TextCell(<<"C", "O", "S", "T", "C", "O", " ", "W", "H", "S", "E">>)
              [] c = "Debit" -> NumCell(50)
              [] c = "Credit" -> NaNCell] >>)

\* a Citi file: a refund in the Credit column
CitiRefund ==
    CsvFile({"Date", "Description", "Debit", "Credit"}, <<
        [c \in {"Date", "Description", "Debit", "Credit"} |->
            CASE c = "Date" -> NumCell(2)
              [] c = "Description" -> TextCell(<<"T", "e", "a", " ", "S", "t", "o", "r", "e">>)
              [] c = "Debit" -> NaNCell
              [] c = "Credit" -> NumCell(-20)] >>)

\* a Citi file that lacks the Credit column
CitiNoCredit ==
    CsvFile({"Date", "Description", "Debit"}, <<
        [c \in {"Date", "Description", "Debit"} |->
            CASE c = "Date" -> NumCell(1)
              [] c = "Description" -> TextCell(<<"U", "B", "E", "R">>)
              [] c = "Debit" -> NumCell(9)] >>)

\* a Smartly file: a Costco purchase in another case and an unknown merchant
SmartlyPurchases ==
    CsvFile({"Date", "Name", "Amount"}, <<
        [c \in {"Date", "Name", "Amount"} |->
            CASE c = "Date" -> NumCell(2)
              [] c = "Name" -> TextCell(<<"C", "o", "s", "t", "c", "o", " ", "G", "a", "s">>)
              [] c = "Amount" -> NumCell(-40)],
        [c \in {"Date", "Name", "Amount"} |->
            CASE c = "Date" -> NumCell(2)
              [] c = "Name" -> TextCell(<<"Z", "e", "n", " ", "S", "p", "a">>)
              [] c = "Amount" -> NumCell(-15)] >>)

\* a Smartly file: a row with an empty Name
SmartlyNoName ==
    CsvFile({"Date", "Name", "Amount"}, <<
        [c \in {"Date", "Name", "Amount"} |->
            CASE c = "Date" -> NumCell(1)
              [] c = "Name" -> NaNCell
              [] c = "Amount" -> NumCell(-10)] >>)

\* a Smartly file: a row with an empty Date and a row with an empty Amount
SmartlyGaps ==
    CsvFile({"Date", "Name", "Amount"}, <<
        [c \in {"Date", "Name", "Amount"} |->
            CASE c = "Date" -> NaNCell
              [] c = "Name" -> TextCell(<<"U", "B", "E", "R">>)
              [] c = "Amount" -> NumCell(-5)],
        [c \in {"Date", "Name", "Amount"} |->
            CASE c = "Date" -> NumCell(1)
              [] c = "Name" -> TextCell(<<"L", "Y", "F", "T">>)
              [] c = "Amount" -> NaNCell] >>)

\* a Smartly file with a header row only
SmartlyEmpty == CsvFile({"Date", "Name", "Amount"}, <<>>)

\* a Smartly file whose second row has an Amount that is no number
SmartlyBadAmount ==
    CsvFile({"Date", "Name", "Amount"}, <<
        [c \in {"Date", "Name", "Amount"} |->
            CASE c = "Date" -> NumCell(1)
              [] c = "Name" -> TextCell(<<"U", "B", "E", "R">>)
              [] c = "Amount" -> NumCell(-5)],
        [c \in {"Date", "Name", "Amount"} |->
            CASE c = "Date" -> NumCell(2)
              [] c = "Name" -> TextCell(<<"L", "Y", "F", "T">>)
              [] c = "Amount" -> TextCell(<<"x">>)] >>)

\* a Costco file: a purchase above the threshold and, dated before it, one below
CostcoReceipts ==
    CsvFile({"date", "description", "amount"}, <<
        [c \in {"date", "description", "amount"} |->
            CASE c = "date" -> NumCell(2)
              [] c = "description" -> TextCell(<<"T", "v">>)
              [] c = "amount" -> NumCell(150)],
        [c \in {"date", "description", "amount"} |->
            CASE c = "date" -> NumCell(1)
              [] c = "description" -> TextCell(<<"M", "i", "l", "k">>)
              [] c = "amount" -> NumCell(10)] >>)

\* a Costco file: a purchase above the threshold whose description starts
\* with a word that has a digit in it
CostcoTelevision ==
    CsvFile({"date", "description", "amount"}, <<
        [c \in {"date", "description", "amount"} |->
            CASE c = "date" -> NumCell(2)
              [] c = "description" -> TextCell(<<"4", "K", " ", "S", "a", "m", "s", "u", "n", "g">>)
              [] c = "amount" -> NumCell(500)] >>)

\* the contents each registered file can have
FileChoices ==
    [name \in DOMAIN csv_processor_mapping |->
        CASE name = CitiName ->
                {NoFile, UnreadableFile, CitiPurchases, CitiRefund, CitiNoCredit}
          [] name = SmartlyName ->
                {NoFile, SmartlyPurchases, SmartlyNoName, SmartlyGaps, SmartlyEmpty,
                 SmartlyBadAmount}
          [] name = CostcoName ->
                {NoFile, CostcoReceipts, CostcoTelevision}]

\* the folder that holds the chosen content of each registered file, and a
\* file no processor is registered for
FolderWith(content) ==
    [exists |-> TRUE,
     files |-> [name \in {n \in DOMAIN content : content[n] # NoFile} \cup {OtherName} |->
                  IF name = OtherName THEN UnreadableFile ELSE content[name]]]

\* the folders of the runs: absent, or with any choice of content
Folders ==
    {NoFolder} \cup
    {FolderWith(content) :
        content \in {c \in [DOMAIN csv_processor_mapping ->
                              UNION {FileChoices[n] : n \in DOMAIN FileChoices}] :
                        \A n \in DOMAIN c : c[n] \in FileChoices[n]}}

\* the rule stores of the runs of load_and_process_data
LoadFiles == {MissingFile, Doc(<<>>)}

-----------------------------------------------------------------------------
(* The run *)

\* FinancialAnalyzer.__init__: the RuleSet is loaded from the file
Init ==
    /\ store \in InitialFiles
    /\ categorization_config = load_categorization_config(store)
    /\ pc = "idle"
    /\ call = NoCall
    /\ choice = <<>>
    /\ selected = NoSelection
    /\ out = <<>>
    /\ ret = [category |-> "", path |-> "none"]
    /\ reprompted = FALSE
    /\ wrote = "none"
    /\ learnLog = <<>>
    /\ folder = NoFolder
    /\ phase = "classify"
    /\ pending = {}
    /\ failed = {}
    /\ all_data = <<>>
    /\ combined_data = <<>>
    /\ calls = <<>>
    /\ clean = TRUE
    /\ previous = NoPrevious

\* one call of categorize_transaction_with_amount, up to its return or to the
\* prompt of the fallback
CategorizeCall(description, amount) ==
    /\ pc = "idle"
    /\ LET r == categorize_transaction_with_amount(categorization_config, description, amount)
       IN  /\ categorization_config' = r.config
           /\ call' = [description |-> description, amount |-> amount]
           /\ ret' = [category |-> r.category, path |-> r.path]
           /\ pc' = CASE r.path = "prompt" -> "prompt"
                      [] r.path = "raise" -> "raised"
                      [] OTHER -> "idle"
           /\ out' = IF r.path \in {"override", "rule"} THEN Append(out, r.category) ELSE out
    /\ selected' = NoSelection
    /\ choice' = <<>>
    /\ reprompted' = FALSE
    /\ wrote' = "none"
    /\ UNCHANGED <<store, learnLog>>

\* the lambda of load_and_process_data calls categorize for the next row
Categorize(description, amount) ==
    /\ Len(out) < MaxRows
    /\ CategorizeCall(description, amount)
    /\ UNCHANGED loadVars

\* input() returns a line
PromptLine(line) ==
    /\ pc = "prompt"
    /\ LET r == prompt_user_for_category(categorization_config, call.description, line)
       IN  /\ categorization_config' = r.config
           /\ pc' = r.next
           /\ selected' = [category |-> r.category, key_term |-> r.key_term]
           /\ learnLog' = IF r.next = "prompt" THEN learnLog
                          ELSE Append(learnLog,
                                 [description |-> call.description, amount |-> call.amount,
                                  category |-> r.category, key_term |-> r.key_term])
           /\ reprompted' = (reprompted \/ r.next = "prompt")
    /\ choice' = Strip(line)
    /\ UNCHANGED <<store, call, out, ret, wrote>>
    /\ UNCHANGED loadVars

\* input() raises KeyboardInterrupt
PromptInterrupt ==
    /\ pc = "prompt"
    /\ ret' = [category |-> InterruptCategory(categorization_config), path |-> "interrupt"]
    /\ out' = Append(out, InterruptCategory(categorization_config))
    /\ pc' = "idle"
    /\ UNCHANGED <<categorization_config, store, call, choice, selected, reprompted, wrote,
                   learnLog>>
    /\ UNCHANGED loadVars

\* input() raises EOFError, which no except clause of the loop handles
PromptEOF ==
    /\ pc = "prompt"
    /\ ret' = [category |-> "", path |-> "raise"]
    /\ pc' = "raised"
    /\ UNCHANGED <<categorization_config, store, call, choice, selected, out, reprompted,
                   wrote, learnLog>>
    /\ UNCHANGED loadVars

\* update_config_with_new_keyword writes the file
WriteConfig(outcome) ==
    /\ pc = "write"
    /\ store' = WriteFile(store, categorization_config, outcome)
    /\ categorization_config' =
          ConfigAfterWrite(categorization_config, selected.category, selected.key_term, outcome)
    /\ wrote' = outcome
    /\ pc' = "return"
    /\ UNCHANGED <<call, choice, selected, out, ret, reprompted, learnLog>>
    /\ UNCHANGED loadVars

\* prompt_user_for_category returns the selected category
ReturnSelected ==
    /\ pc = "return"
    /\ ret' = [category |-> selected.category, path |-> "learned"]
    /\ out' = Append(out, selected.category)
    /\ pc' = "idle"
    /\ UNCHANGED <<categorization_config, store, call, choice, selected, reprompted, wrote,
                   learnLog>>
    /\ UNCHANGED loadVars

Next ==
    \/ \E row \in Rows : Categorize(row.description, row.amount)
    \/ \E line \in InputLines : PromptLine(line)
    \/ PromptInterrupt
    \/ PromptEOF
    \/ \E outcome \in WriteOutcomes : WriteConfig(outcome)
    \/ ReturnSelected

Spec == Init /\ [][Next]_vars

-----------------------------------------------------------------------------
(* load_and_process_data *)

\* date a sorts strictly before date b: NaT sorts after every date
DateBefore(a, b) ==
    \/ a.tag = "date" /\ b.tag = "nat"
    \/ a.tag = "date" /\ b.tag = "date" /\ a.value < b.value

\* the rows are in ascending order of date, the rows without a date last
IsSortedByDate(rows) ==
    \A i, j \in 1..Len(rows) : i < j => ~DateBefore(rows[j].date, rows[i].date)

\* the orders in which n rows can be arranged
Orderings(n) ==
    {f \in [1..n -> 1..n] : \A i, j \in 1..n : i # j => f[i] # f[j]}

\* a mutant of sort_values: the rows stay in the order of all_data
sort_values_unsorted(data) == {data}

\* DataFrame.sort_values("date"): ascending, NaT last; the default sort is not
\* stable, so rows of equal date come in any order
sort_values(data) ==
    {rows \in {[i \in 1..Len(data) |-> data[f[i]]] : f \in Orderings(Len(data))} :
        IsSortedByDate(rows)}

\* a row of self.combined_data
CombinedRow(date, raw_description, description, amount) ==
    [date |-> date, raw_description |-> raw_description,
     description |-> description, amount |-> amount]

\* the amount as categorize compares it with the threshold: NaN > 100 is
\* False, as 0 > 100 is
ComparableAmount(cell) == IF cell.tag = "nan" THEN 0 ELSE cell.value

\* the analyzer is constructed and load_and_process_data is about to be called
LoadInit ==
    /\ store \in LoadFiles
    /\ categorization_config = load_categorization_config(store)
    /\ pc = "idle"
    /\ call = NoCall
    /\ choice = <<>>
    /\ selected = NoSelection
    /\ out = <<>>
    /\ ret = [category |-> "", path |-> "none"]
    /\ reprompted = FALSE
    /\ wrote = "none"
    /\ learnLog = <<>>
    /\ folder \in Folders
    /\ phase = "start"
    /\ pending = {}
    /\ failed = {}
    /\ all_data = <<>>
    /\ combined_data = <<>>
    /\ calls = <<>>
    /\ clean = TRUE
    /\ previous = NoPrevious

\* the folder is looked up and the registered files in it are found; ValueError
\* when the folder is absent or holds no registered file
FindFiles ==
    /\ phase = "start"
    /\ LET available_files == DOMAIN folder.files
           registered_files == DOMAIN csv_processor_mapping
           csv_files == available_files \cap registered_files
       IN  IF ~folder.exists \/ csv_files = {}
           THEN phase' = "fatal" /\ pending' = {}
           ELSE phase' = "files" /\ pending' = csv_files
    /\ UNCHANGED <<categorization_config, store, pc, call, choice, selected, out, ret,
                   reprompted, wrote, learnLog>>
    /\ UNCHANGED <<folder, failed, all_data, combined_data, calls, clean, previous>>

\* a mutant of FileErrorPhase: the error of a processor is not caught
FileErrorPhaseUncaught == "raised"

\* where the loop over csv_files goes after a processor raised: the except
\* clause prints the error and continues with the next file
FileErrorPhase == "files"

\* one pass of the loop over csv_files, which is a set: the file is processed
\* and its transactions are added to all_data, or the error is printed
ProcessFile(csv_file) ==
    /\ phase = "files"
    /\ csv_file \in pending
    /\ LET processed_data == process(csv_processor_mapping[csv_file], folder.files[csv_file])
       IN  IF processed_data.ok
           THEN /\ all_data' = all_data \o processed_data.value
                /\ failed' = failed
                /\ phase' = "files"
           ELSE /\ all_data' = all_data
                /\ failed' = failed \cup {csv_file}
                /\ phase' = FileErrorPhase
    /\ pending' = pending \ {csv_file}
    /\ UNCHANGED <<categorization_config, store, pc, call, choice, selected, out, ret,
                   reprompted, wrote, learnLog>>
    /\ UNCHANGED <<folder, combined_data, calls, clean, previous>>

\* after the loop: ValueError when all_data is empty; otherwise the data is
\* sorted by date and the merchant name of every row is extracted
CombineData ==
    /\ phase = "files"
    /\ pending = {}
    /\ IF all_data = <<>>
       THEN phase' = "fatal" /\ combined_data' = combined_data
       ELSE \E sorted \in sort_values(all_data) :
               IF \E i \in 1..Len(sorted) : ~NormalizeCell(sorted[i].description).ok
               THEN /\ phase' = "raised"
                    /\ combined_data' =
                          [i \in 1..Len(sorted) |->
                              CombinedRow(sorted[i].date, sorted[i].description,
                                          sorted[i].description, sorted[i].amount)]
               ELSE /\ phase' = "classify"
                    /\ combined_data' =
                          [i \in 1..Len(sorted) |->
                              CombinedRow(sorted[i].date, sorted[i].description,
                                          TextCell(NormalizeCell(sorted[i].description).value),
                                          sorted[i].amount)]
    /\ UNCHANGED <<categorization_config, store, pc, call, choice, selected, out, ret,
                   reprompted, wrote, learnLog>>
    /\ UNCHANGED <<folder, pending, failed, all_data, calls, clean, previous>>

\* the row classified last was answered without an interrupt of the prompt
\* and without a write that failed
AnsweredCleanly == ret.path # "interrupt" /\ wrote \in {"none", "ok"}

\* DataFrame.apply calls the lambda for the next row of combined_data
ClassifyRow ==
    /\ phase = "classify"
    /\ Len(out) < Len(combined_data)
    /\ LET row == combined_data[Len(out) + 1]
       IN  /\ CategorizeCall(row.description.text, ComparableAmount(row.amount))
           /\ calls' = Append(calls, row.date)
    /\ clean' = (clean /\ AnsweredCleanly)
    /\ UNCHANGED <<folder, phase, pending, failed, all_data, combined_data, previous>>

\* every row has its category: year_month is added and the data is returned
ReturnData ==
    /\ phase = "classify"
    /\ pc = "idle"
    /\ Len(out) = Len(combined_data)
    /\ phase' = "done"
    /\ clean' = (clean /\ AnsweredCleanly)
    /\ UNCHANGED <<categorization_config, store, pc, call, choice, selected, out, ret,
                   reprompted, wrote, learnLog>>
    /\ UNCHANGED <<folder, pending, failed, all_data, combined_data, calls, previous>>

LoadNext ==
    \/ FindFiles
    \/ \E csv_file \in DOMAIN csv_processor_mapping : ProcessFile(csv_file)
    \/ CombineData
    \/ ClassifyRow
    \/ \E line \in InputLines : PromptLine(line)
    \/ PromptInterrupt
    \/ PromptEOF
    \/ \E outcome \in WriteOutcomes : WriteConfig(outcome)
    \/ ReturnSelected
    \/ ReturnData

LoadSpec == LoadInit /\ [][LoadNext]_vars

-----------------------------------------------------------------------------
(* A second run over the same folder *)

\* a Citi file: a purchase at a merchant whose name is the last word of the
\* merchant name "Zen Spa" of SmartlyPurchases, and is dated after it
CitiSpa ==
    CsvFile({"Date", "Description", "Debit", "Credit"}, <<
        [c \in {"Date", "Description", "Debit", "Credit"} |->
            CASE c = "Date" -> NumCell(3)
              [] c = "Description" -> TextCell(<<"S", "p", "a">>)
              [] c = "Debit" -> NumCell(25)
              [] c = "Credit" -> NaNCell] >>)

\* the folders of the runs that are repeated
TwoRunFolders == {
    FolderWith([name \in DOMAIN csv_processor_mapping |->
        CASE name = CitiName -> CitiSpa
          [] name = SmartlyName -> SmartlyPurchases
          [] name = CostcoName -> NoFile]),
    FolderWith([name \in DOMAIN csv_processor_mapping |->
        CASE name = CitiName -> CitiPurchases
          [] name = SmartlyName -> NoFile
          [] name = CostcoName -> CostcoReceipts]) }

\* the first of two runs is about to call load_and_process_data
TwoRunInit ==
    /\ store \in LoadFiles
    /\ categorization_config = load_categorization_config(store)
    /\ pc = "idle"
    /\ call = NoCall
    /\ choice = <<>>
    /\ selected = NoSelection
    /\ out = <<>>
    /\ ret = [category |-> "", path |-> "none"]
    /\ reprompted = FALSE
    /\ wrote = "none"
    /\ learnLog = <<>>
    /\ folder \in TwoRunFolders
    /\ phase = "start"
    /\ pending = {}
    /\ failed = {}
    /\ all_data = <<>>
    /\ combined_data = <<>>
    /\ calls = <<>>
    /\ clean = TRUE
    /\ previous = NoPrevious

\* the category column of the run: each transaction with its category
CategoryOfRows ==
    {<<Transaction(combined_data[i].date, combined_data[i].raw_description,
                   combined_data[i].amount), out[i]>> : i \in 1..Len(out)}

\* main() has returned and is started again: a new FinancialAnalyzer loads the
\* rule store the first run left and is about to read the same folder
SecondRun ==
    /\ phase = "done"
    /\ ~previous.done
    /\ previous' = [done |-> TRUE, clean |-> clean, store |-> store,
                    categories |-> CategoryOfRows]
    /\ categorization_config' = load_categorization_config(store)
    /\ pc' = "idle"
    /\ call' = NoCall
    /\ choice' = <<>>
    /\ selected' = NoSelection
    /\ out' = <<>>
    /\ ret' = [category |-> "", path |-> "none"]
    /\ reprompted' = FALSE
    /\ wrote' = "none"
    /\ learnLog' = <<>>
    /\ phase' = "start"
    /\ pending' = {}
    /\ failed' = {}
    /\ all_data' = <<>>
    /\ combined_data' = <<>>
    /\ calls' = <<>>
    /\ clean' = TRUE
    /\ UNCHANGED <<store, folder>>

TwoRunNext ==
    \/ FindFiles
    \/ \E csv_file \in DOMAIN csv_processor_mapping : ProcessFile(csv_file)
    \/ CombineData
    \/ ClassifyRow
    \/ \E line \in InputLines : PromptLine(line)
    \/ PromptInterrupt
    \/ PromptEOF
    \/ \E outcome \in WriteOutcomes : WriteConfig(outcome)
    \/ ReturnSelected
    \/ ReturnData
    \/ SecondRun

TwoRunSpec == TwoRunInit /\ [][TwoRunNext]_vars

-----------------------------------------------------------------------------
(* Runs over a file of one row, for the descriptions a row can hold *)

\* the number of pieces a description is written from
MaxPieces == 3

\* pieces of text of a description: payment processor prefixes, a space, a
\* word of one letter, a word, a location word, a phone number, and words
\* that name known merchants
Pieces == {
    <<"S", "Q", " ", "*">>,
    <<"S", "P", " ">>,
    <<"F", "S", "P", "*">>,
    <<" ">>,
    <<"x", " ">>,
    <<"Z", "e", "n", " ">>,
    <<"w", "w", "w", " ">>,
    <<"5", "5", "5", "-", "0", "1", "0", "0", "-">>,
    <<"a", "m", "a", "z", "o", "n", " ">>,
    <<"t", "e", "s", "l", "a", " ", "c", "h", "a", "r", "g", "e", " ">> }

\* the texts written from at most n pieces
RECURSIVE Concatenations(_)
Concatenations(n) ==
    IF n = 0 THEN {<<>>}
    ELSE LET shorter == Concatenations(n - 1)
         IN  shorter \cup {s \o p : s \in shorter, p \in Pieces}

\* the descriptions of the rows: pd.read_csv reads an empty cell as NaN, so
\* the text of a description cell is never empty
RawDescriptions == Concatenations(MaxPieces) \ {<<>>}

\* a Citi file of one row, a purchase dated day 1
OneRowFile(raw_description) ==
    CsvFile({"Date", "Description", "Debit", "Credit"}, <<
        [c \in {"Date", "Description", "Debit", "Credit"} |->
            CASE c = "Date" -> NumCell(1)
              [] c = "Description" -> TextCell(raw_description)
              [] c = "Debit" -> NumCell(20)
              [] c = "Credit" -> NaNCell] >>)

\* the folders that hold one such file
OneRowFolders ==
    {FolderWith([name \in DOMAIN csv_processor_mapping |->
                    IF name = CitiName THEN OneRowFile(raw_description) ELSE NoFile]) :
        raw_description \in RawDescriptions}

\* the analyzer is constructed, without a rule store file, and
\* load_and_process_data is about to be called
DescriptionInit ==
    /\ store = MissingFile
    /\ categorization_config = load_categorization_config(store)
    /\ pc = "idle"
    /\ call = NoCall
    /\ choice = <<>>
    /\ selected = NoSelection
    /\ out = <<>>
    /\ ret = [category |-> "", path |-> "none"]
    /\ reprompted = FALSE
    /\ wrote = "none"
    /\ learnLog = <<>>
    /\ folder \in OneRowFolders
    /\ phase = "start"
    /\ pending = {}
    /\ failed = {}
    /\ all_data = <<>>
    /\ combined_data = <<>>
    /\ calls = <<>>
    /\ clean = TRUE
    /\ previous = NoPrevious

DescriptionSpec == DescriptionInit /\ [][LoadNext]_vars

-----------------------------------------------------------------------------
(* Properties of categorize_transaction_with_amount *)

\* keyword k of the RuleSet is a case-insensitive substring of the merchant name
KeywordIn(k, description) ==
    k.tag = "str" /\ Contains(Lower(description), Lower(k.text))

\* category i of the RuleSet has a keyword in the merchant name
CategoryHits(config, i, description) ==
    \E j \in 1..Len(config.categories[i].keywords) :
        KeywordIn(config.categories[i].keywords[j], description)

\* the merchant name carries the Costco tag and the amount is above 100
OverrideCase(description, amount) ==
    /\ Len(description) >= Len(CostcoTag)
    /\ \A i \in 1..Len(CostcoTag) : LowerChar(description[i]) = CostcoTag[i]
    /\ amount > 100

\* a step that is a call of categorize: the run was idle and something changed
IsCall == pc = "idle" /\ vars' # vars

\* C1: when the Costco override does not apply, categorize returns the first
\* category, in the stored order of the RuleSet, that has a keyword which is a
\* case-insensitive substring of the merchant name; a later matching category
\* never wins, and the fallback is entered only when no category matches.
C1_FirstMatchWins ==
    [][ (/\ IsCall
         /\ ~categorization_config.isNone
         /\ ~OverrideCase(call'.description, call'.amount))
        => LET hits == {i \in 1..Len(categorization_config.categories) :
                          CategoryHits(categorization_config, i, call'.description)}
           IN  IF hits = {}
               THEN ret'.path = "prompt"
               ELSE /\ ret'.path = "rule"
                    /\ \E i \in hits :
                          /\ \A j \in hits : i <= j
                          /\ ret'.category = categorization_config.categories[i].name
      ]_vars

\* C1 witness: a rule answered for a merchant name that an earlier category
\* matches with one keyword and a later category with two, one of them longer
C1_Witness ==
    /\ ret.path = "rule"
    /\ \E i, j \in 1..Len(categorization_config.categories) :
          /\ i < j
          /\ ret.category = categorization_config.categories[i].name
          /\ CategoryHits(categorization_config, i, call.description)
          /\ Len(categorization_config.categories[i].keywords) = 1
          /\ \E a, b \in 1..Len(categorization_config.categories[j].keywords) :
                /\ a # b
                /\ KeywordIn(categorization_config.categories[j].keywords[a], call.description)
                /\ KeywordIn(categorization_config.categories[j].keywords[b], call.description)
                /\ Len(categorization_config.categories[j].keywords[a].text) >
                     Len(categorization_config.categories[i].keywords[1].text)

\* C2: a merchant name that starts, in any case, with "costco-" and an amount
\* above 100 give "Shopping" whatever the RuleSet is, with no rule lookup, no
\* fallback and no change of the RuleSet or the file; with an amount of 100 or
\* less the override is not taken and the rule lookup decides.
C2_CostcoOverride ==
    [][ (/\ IsCall
         /\ Len(call'.description) >= Len(CostcoTag)
         /\ \A i \in 1..Len(CostcoTag) : LowerChar(call'.description[i]) = CostcoTag[i])
        => IF call'.amount > 100
           THEN /\ ret' = [category |-> "Shopping", path |-> "override"]
                /\ out' = Append(out, "Shopping")
                /\ pc' = "idle"
                /\ UNCHANGED <<categorization_config, store, learnLog>>
           ELSE /\ ret'.path # "override"
                /\ ~categorization_config.isNone =>
                      IF \E i \in 1..Len(categorization_config.categories) :
                            CategoryHits(categorization_config, i, call'.description)
                      THEN ret'.path = "rule"
                      ELSE ret'.path = "prompt"
      ]_vars

\* C2 witness: the override answered "Shopping" although a category other than
\* "Shopping" of the RuleSet has a keyword in the merchant name
C2_Witness ==
    /\ ret = [category |-> "Shopping", path |-> "override"]
    /\ call.amount > 100
    /\ \E i \in 1..Len(categorization_config.categories) :
          /\ categorization_config.categories[i].name # "Shopping"
          /\ CategoryHits(categorization_config, i, call.description)

\* C3: a call answered by a rule or by the Costco override is no learning
\* event: no prompt, the RuleSet in memory and the file are unchanged; and the
\* same call repeated on that path returns the same category.
C3_MatchedPathIsPure ==
    [][ (IsCall /\ ret'.path \in {"rule", "override"})
        => /\ UNCHANGED <<categorization_config, store, learnLog>>
           /\ pc' = "idle"
           /\ wrote' = "none"
           /\ (ret.path \in {"rule", "override"} /\ call' = call) => ret' = ret
      ]_vars

\* C3 witness: two calls answered "Shopping" by rule with the default RuleSet,
\* nothing learned and the file still absent
C3_Witness ==
    /\ ret.path = "rule"
    /\ out = <<"Shopping", "Shopping">>
    /\ call.amount <= 100
    /\ learnLog = <<>>
    /\ store = MissingFile
    /\ categorization_config = DefaultConfig

-----------------------------------------------------------------------------
(* Properties of the learning fallback *)

\* the last learning step of the run
LastLearned == learnLog[Len(learnLog)]

C5_WriteBeforeReturn ==
    /\ ret.path = "learned" => wrote \in WriteOutcomes
    /\ pc = "return" => wrote \in WriteOutcomes
    /\ (ret.path = "learned" /\ wrote = "ok") =>
          store = Doc(yaml_dump(categorization_config))

\* C5 witness: a learned category was returned after a write that failed, the
\* keyword being in memory only
C5_Witness ==
    /\ ret.path = "learned"
    /\ pc = "idle"
    /\ wrote = "open_failed"
    /\ store = MissingFile
    /\ out[Len(out)] = selected.category

\* the number of times keyword occurs in the list of category
Occurrences(config, category, keyword) ==
    LET i == IndexOf(config.categories, category)
    IN  IF i = 0 THEN 0
        ELSE Cardinality({j \in 1..Len(config.categories[i].keywords) :
                            config.categories[i].keywords[j] = Str(keyword)})

\* C6: learning is idempotent.  After update_config_with_new_keyword has
\* added a keyword to a category, a second call with the same category and
\* keyword leaves the RuleSet as the first left it, the keyword once in its
\* list, and writes the same content; and a learning step of the run that
\* repeats the previous one changes neither the RuleSet nor a file written by
\* the previous one.
C6_LearningIdempotent ==
    /\ [](pc \in {"write", "return"} =>
            LET once == categorization_config
                twice == AddKeyword(once, selected.category, selected.key_term)
            IN  /\ twice = once
                /\ Occurrences(twice, selected.category, selected.key_term) = 1
                /\ yaml_dump(twice) = yaml_dump(once))
    /\ [][ (/\ pc = "prompt"
            /\ Len(learnLog') = Len(learnLog) + 1
            /\ Len(learnLog) >= 1
            /\ learnLog'[Len(learnLog')].category = LastLearned.category
            /\ learnLog'[Len(learnLog')].key_term = LastLearned.key_term)
           => categorization_config' = categorization_config
        ]_vars
    /\ [][ (/\ pc = "write"
            /\ wrote' = "ok"
            /\ Len(learnLog) >= 2
            /\ learnLog[Len(learnLog) - 1].category = LastLearned.category
            /\ learnLog[Len(learnLog) - 1].key_term = LastLearned.key_term
            /\ store = Doc(yaml_dump(categorization_config)))
           => store' = store
        ]_vars

\* C6 witness: the same keyword was learned twice for the same category, both
\* writes completed, and the keyword is once in the list
C6_Witness ==
    /\ Len(learnLog) = 2
    /\ learnLog[1].category = learnLog[2].category
    /\ learnLog[1].key_term = learnLog[2].key_term
    /\ pc = "return"
    /\ wrote = "ok"
    /\ Occurrences(categorization_config, selected.category, selected.key_term) = 1
    /\ store = Doc(yaml_dump(categorization_config))

-----------------------------------------------------------------------------
(* Properties of the rule store *)

\* C7: round trip.  The RuleSet the run holds, written by the save step of
\* update_config_with_new_keyword and read by load_categorization_config, is
\* the same RuleSet: the same categories in the same order, the same keywords
\* in the same order, the same default_category; and after a write that
\* completed the file reads back as the RuleSet in memory.
C7_RoundTrip ==
    /\ ~categorization_config.isNone =>
          load_categorization_config(WriteFile(store, categorization_config, "ok"))
            = categorization_config
    /\ wrote = "ok" => load_categorization_config(store) = categorization_config

\* C7 witness: a file written by the run holds, next to the default categories,
\* a learned keyword made of digits and reads back as the RuleSet in memory
C7_Witness ==
    /\ wrote = "ok"
    /\ Len(categorization_config.categories) >= 4
    /\ \E i \in 1..Len(categorization_config.categories) :
          \E j \in 1..Len(categorization_config.categories[i].keywords) :
              categorization_config.categories[i].keywords[j] = Str(<<"1", "2", "3">>)
    /\ load_categorization_config(store) = categorization_config

\* xs is a prefix of ys
IsPrefix(xs, ys) == Len(xs) <= Len(ys) /\ SubSeq(ys, 1, Len(xs)) = xs

\* the category names of a document, in the order of its lines
RECURSIVE NamesOfLines(_)
NamesOfLines(lines) ==
    IF lines = <<>> THEN <<>>
    ELSE IF Head(lines).kind \in {"category", "category_empty"}
         THEN <<Head(lines).name>> \o NamesOfLines(Tail(lines))
         ELSE NamesOfLines(Tail(lines))

\* C8: a learning step keeps the order of the categories it found and of the
\* keywords of each of them; the learned keyword, when new, is the last of the
\* selected category, and a selected category that was absent is the last
\* category; the file written lists the categories in the order in memory.
C8_OrderPreserved ==
    [][ /\ (pc = "prompt" /\ pc' # "prompt" /\ ~(ret'.path \in {"interrupt", "raise"}))
           => LET old == categorization_config.categories
                  new == categorization_config'.categories
                  i == IndexOf(new, selected'.category)
              IN  /\ Len(new) \in {Len(old), Len(old) + 1}
                  /\ \A n \in 1..Len(old) :
                        /\ new[n].name = old[n].name
                        /\ IsPrefix(old[n].keywords, new[n].keywords)
                        /\ n # i => new[n].keywords = old[n].keywords
                  /\ i > 0
                  /\ IndexOf(old, selected'.category) = 0 => i = Len(new)
                  /\ new[i].keywords[Len(new[i].keywords)] = Str(selected'.key_term)
                        \/ \E j \in 1..Len(old[i].keywords) :
                              old[i].keywords[j] = Str(selected'.key_term)
                  /\ Len(new[i].keywords) <=
                        (IF i <= Len(old) THEN Len(old[i].keywords) ELSE 0) + 1
        /\ (pc = "write" /\ wrote' = "ok")
           => NamesOfLines(store'.lines) =
                [n \in 1..Len(categorization_config.categories) |->
                    categorization_config.categories[n].name]
      ]_vars

\* C8 witness: with the stored RuleSet, a keyword was added after the one
\* keyword of "Food", the first category, and the file was rewritten
C8_Witness ==
    /\ pc = "return"
    /\ wrote = "ok"
    /\ selected.category = "Food"
    /\ Len(categorization_config.categories) = 3
    /\ categorization_config.categories[1].name = "Food"
    /\ categorization_config.categories[1].keywords =
          <<Str(<<"t", "e", "a">>), Str(selected.key_term)>>
    /\ NamesOfLines(store.lines) = <<"Food", "Shopping", "Misc">>

-----------------------------------------------------------------------------
(* Properties of the prompt *)

\* C9: when input() is cancelled by an interrupt, categorize returns the
\* default_category the RuleSet configures and raises nothing, the RuleSet and
\* the file are as they were, and the run is idle again, ready for the next row.
C9_InterruptGivesDefault ==
    /\ [][ (pc = "prompt" /\ ret'.path = "interrupt")
           => /\ categorization_config.hasDefault
                    => ret'.category = categorization_config.default_category
              /\ out' = Append(out, ret'.category)
              /\ pc' = "idle"
              /\ UNCHANGED <<categorization_config, store, learnLog, wrote>>
        ]_vars
    /\ [](ret.path = "interrupt" =>
            /\ pc = "idle"
            /\ Len(out) < MaxRows => ENABLED (\E row \in Rows :
                                                Categorize(row.description, row.amount)))

\* C9 witness: with a stored RuleSet whose default_category is "Misc", the
\* first row was answered "Misc" after an interrupt and a second row has been
\* classified since
C9_Witness ==
    /\ Len(out) = 2
    /\ out[1] = "Misc"
    /\ categorization_config.default_category = "Misc"
    /\ store = StoredDoc
    /\ learnLog = <<>>
    /\ ret.path = "rule"
    /\ pc = "idle"

\* the lines that select a category: the numbers 1 to 8
ValidChoices == {<<"1">>, <<"2">>, <<"3">>, <<"4">>, <<"5">>, <<"6">>, <<"7">>, <<"8">>}

\* a step of the fallback in which input() returned a line
IsLineRead == pc = "prompt" /\ ret' = ret /\ vars' # vars

\* C10: an empty, non-numeric or out-of-range line raises nothing and changes
\* neither the RuleSet nor the file, and the prompt is repeated; the fallback
\* is left only by a selection from AVAILABLE_CATEGORIES or by an interrupt, and
\* a selection or an interrupt does end it: after an interrupt the run is idle
\* at once, and after a selection the write and the return can always be taken
\* and lead, in two steps, to the return of the selected category.
C10_InvalidInputReprompts ==
    /\ [][ IsLineRead
           => IF choice' \in ValidChoices
              THEN /\ pc' = "write"
                   /\ \E n \in 1..Len(AVAILABLE_CATEGORIES) :
                         /\ ParseInt(choice').value = n
                         /\ selected'.category = AVAILABLE_CATEGORIES[n]
              ELSE /\ pc' = "prompt"
                   /\ UNCHANGED <<categorization_config, store, out, learnLog, call>>
        ]_vars
    /\ [][ (pc = "prompt" /\ pc' \notin {"prompt", "raised"})
           => \/ ret'.path = "interrupt" /\ pc' = "idle"
              \/ choice' \in ValidChoices /\ pc' = "write"
        ]_vars
    /\ [](ret.path = "learned" =>
            /\ choice \in ValidChoices
            /\ \E n \in 1..Len(AVAILABLE_CATEGORIES) : ret.category = AVAILABLE_CATEGORIES[n])
    /\ [](pc \in {"write", "return"} => ENABLED Next)
    /\ [][ /\ pc = "write" => pc' = "return"
           /\ pc = "return" =>
                 /\ pc' = "idle"
                 /\ ret' = [category |-> selected.category, path |-> "learned"]
        ]_vars

\* C10 witness: the prompt was repeated after a line that is no selection and
\* the second line selected a category, which was returned
C10_Witness ==
    /\ reprompted
    /\ choice \in ValidChoices
    /\ ret.path = "learned"
    /\ pc = "idle"

-----------------------------------------------------------------------------
(* Properties of a write that fails *)

\* the pairs (category, keyword) of a RuleSet
KeywordsOf(config) ==
    UNION {{<<config.categories[i].name, config.categories[i].keywords[j]>> :
                j \in 1..Len(config.categories[i].keywords)} :
           i \in 1..Len(config.categories)}

\* the keywords in memory that a process started now would not load
NotSaved ==
    KeywordsOf(categorization_config) \ KeywordsOf(load_categorization_config(store))

\* a keyword in memory only is in the merchant name of the call
UnsavedKeywordIn(description) ==
    \E pair \in NotSaved : KeywordIn(pair[2], description)

\* a write that fails raises nothing, leaves the learned keyword in the RuleSet
\* in memory and is followed by the return of the selected category
FailedWriteKeepsKeyword ==
    /\ [][ (pc = "write" /\ wrote' # "ok")
           => /\ pc' = "return"
              /\ categorization_config' = categorization_config
              /\ Occurrences(categorization_config', selected.category,
                             selected.key_term) = 1
        ]_vars
    /\ [][ (pc = "return" /\ wrote # "ok")
           => /\ pc' = "idle"
              /\ ret' = [category |-> selected.category, path |-> "learned"]
              /\ out' = Append(out, selected.category)
              /\ categorization_config' = categorization_config
        ]_vars

\* C11 as stated: a write that fails raises nothing, the selected category is
\* returned, the keyword stays in the RuleSet in memory, and every later call
\* of the run whose merchant name holds a keyword that is in memory only is
\* answered by the rule lookup.
C11_FailedWriteKeepsRule ==
    /\ FailedWriteKeepsKeyword
    /\ [][ (IsCall /\ UnsavedKeywordIn(call'.description))
           => ret'.path = "rule"
        ]_vars

\* C11 amended: as stated, but a later call whose merchant name holds such a
\* keyword is answered without the fallback: by the rule lookup, or by the
\* Costco override when the name starts with "costco-" and the amount is
\* above 100.
C11_FailedWriteKeepsKeywordInUse ==
    /\ FailedWriteKeepsKeyword
    /\ [][ (IsCall /\ UnsavedKeywordIn(call'.description))
           => /\ ret'.path \in {"rule", "override"}
              /\ ret'.path = "override"
                    => OverrideCase(call'.description, call'.amount)
              /\ pc' = "idle"
        ]_vars

\* C11 witness: the keyword learned for the first row is in memory only, its
\* write having failed, and the second row, whose name holds it, was answered
\* by the rule with the category selected for the first
C11_Witness ==
    /\ Len(out) = 2
    /\ Len(learnLog) = 1
    /\ <<learnLog[1].category, Str(learnLog[1].key_term)>> \in NotSaved
    /\ KeywordIn(Str(learnLog[1].key_term), call.description)
    /\ ret = [category |-> learnLog[1].category, path |-> "rule"]
    /\ out[1] = learnLog[1].category

\* C12: at every point of the run, the RuleSet a process started now would
\* load from the file holds every keyword learned in the run, under the
\* category it was learned for, except possibly the one learned last.
C12_CrashLosesAtMostOne ==
    \A n \in 1..(Len(learnLog) - 1) :
        <<learnLog[n].category, Str(learnLog[n].key_term)>>
            \in KeywordsOf(load_categorization_config(store))

-----------------------------------------------------------------------------
(* Properties of load_categorization_config *)

\* C13: every categorize call finds a RuleSet that has a categories mapping
\* and a default_category and raises nothing; at the first call of a run whose
\* file was missing, unparsable or an empty document, that RuleSet is one of
\* the built-in defaults.
C13_LoadSubstitutesDefault ==
    [][ IsCall
        => /\ ~categorization_config.isNone
           /\ categorization_config.hasDefault
           /\ (ret.path = "none" /\ (store.kind # "doc" \/ store.lines = <<>>))
                 => categorization_config \in {DefaultConfig, MinimalConfig}
           /\ ret'.path # "raise"
      ]_vars

-----------------------------------------------------------------------------
(* Properties of the category column *)

\* C14: every category put in the category column is a non-empty string,
\* whether it comes from the Costco override, from a rule, from a selection at
\* the prompt or from the default after an interrupt.
C14_CategoryNonEmpty ==
    /\ \A n \in 1..Len(out) : out[n] # ""
    /\ ret.path \in {"override", "rule", "learned", "interrupt"}
          => (ret.category # "" /\ out # <<>> /\ out[Len(out)] = ret.category)

\* C14 witness: with a RuleSet that has no default_category, one row was
\* answered by a selection and the next, after an interrupt, by "Other"
C14_Witness ==
    /\ ~categorization_config.hasDefault
    /\ Len(out) = 2
    /\ Len(learnLog) = 1
    /\ ret = [category |-> "Other", path |-> "interrupt"]
    /\ out[1] = learnLog[1].category

-----------------------------------------------------------------------------
(* Properties of the processors *)

\* the loop processes file f in this step
IsProcessed(f) == phase = "files" /\ f \in pending /\ f \notin pending'

\* the transactions this step adds to all_data
Added == SubSeq(all_data', Len(all_data) + 1, Len(all_data'))

\* pattern is in description, letters compared without regard to case
SkipPatternIn(pattern, description) ==
    \E k \in 0..(Len(description) - Len(pattern)) :
        \A i \in 1..Len(pattern) : LowerChar(description[k + i]) = LowerChar(pattern[i])

\* the description of the row holds a skip pattern configured for the processor
RowMatchesSkip(processor, row) ==
    \E n \in 1..Len(processor.skip_patterns) :
        SkipPatternIn(processor.skip_patterns[n],
                      PyStr(row[processor.description_column_name]))

\* the rows whose description holds no skip pattern, in the order of the file
RECURSIVE RowsNotSkipped(_, _)
RowsNotSkipped(processor, rows) ==
    IF rows = <<>> THEN <<>>
    ELSE IF RowMatchesSkip(processor, Head(rows))
         THEN RowsNotSkipped(processor, Tail(rows))
         ELSE <<Head(rows)>> \o RowsNotSkipped(processor, Tail(rows))

\* the description a processor gives the transaction of a row
EmittedDescription(processor, row) ==
    IF processor.cls = "CostcoCSVProcessor"
    THEN TextCell(<<"C", "O", "S", "T", "C", "O", "-">> \o
                  PyStr(row[processor.description_column_name]))
    ELSE row[processor.description_column_name]

\* C15: when a processor returns the transactions of a file, they are those
\* of the rows whose description holds none of its skip patterns, compared
\* without regard to case, one for each such row and in the order of the file:
\* no row that holds a pattern is in the output and no other row is dropped.
C15_SkipPatterns ==
    [][ \A f \in DOMAIN csv_processor_mapping :
          (IsProcessed(f) /\ f \notin failed')
          => LET processor == csv_processor_mapping[f]
                 rows == folder.files[f].rows
                 kept == RowsNotSkipped(processor, rows)
             IN  /\ Len(Added) = Len(kept)
                 /\ \A i \in 1..Len(kept) :
                       /\ Added[i].description = EmittedDescription(processor, kept[i])
                       /\ ~RowMatchesSkip(processor, kept[i])
                 /\ Len(rows) - Len(Added) =
                       Cardinality({i \in 1..Len(rows) : RowMatchesSkip(processor, rows[i])})
      ]_vars

\* C15 witness: the Citi file and the Smartly file were processed: the rows
\* "COSTCO WHSE" and "Costco Gas" are not in all_data, the other row of each is
C15_Witness ==
    /\ folder.exists
    /\ {CitiName, SmartlyName} \subseteq DOMAIN folder.files
    /\ folder.files[CitiName] = CitiPurchases
    /\ folder.files[SmartlyName] = SmartlyPurchases
    /\ phase = "files"
    /\ pending = {CostcoName}
    /\ failed = {}
    /\ Len(all_data) = 2
    /\ {all_data[1].description, all_data[2].description} =
          {TextCell(<<"A", "M", "A", "Z", "O", "N", " ", "M", "K", "T", "P", "L">>),
           TextCell(<<"Z", "e", "n", " ", "S", "p", "a">>)}

\* the transaction lacks no field
IsComplete(transaction) ==
    /\ transaction.date.tag = "date"
    /\ transaction.description.tag = "str"
    /\ transaction.amount.tag = "num"

\* the date, the description or the amount of the row is an empty cell
LacksField(processor, row) ==
    \/ row[processor.date_column_name].tag = "nan"
    \/ row[processor.description_column_name].tag = "nan"
    \/ IF processor.cls = "CitiCSVProcessor"
       THEN row["Debit"].tag = "nan" /\ row["Credit"].tag = "nan"
       ELSE row[processor.amount_column_name].tag = "nan"

\* C16: a row that lacks its date, description or amount gives no
\* transaction: every transaction of all_data has the three fields; such a row
\* does not make the processor raise; and the run does not raise while it
\* prepares the merged data.
C16_MissingFieldRowSkipped ==
    /\ [](\A i \in 1..Len(all_data) : IsComplete(all_data[i]))
    /\ [][ \A f \in DOMAIN csv_processor_mapping :
             (/\ IsProcessed(f)
              /\ folder.files[f] \in {SmartlyNoName, SmartlyGaps})
             => /\ f \notin failed'
                /\ Len(Added) =
                      Cardinality({i \in 1..Len(folder.files[f].rows) :
                          ~LacksField(csv_processor_mapping[f], folder.files[f].rows[i])})
        ]_vars
    /\ [](phase # "raised")

-----------------------------------------------------------------------------
(* Properties of load_and_process_data *)

\* the files of the folder that a processor is registered for
MatchedFiles == DOMAIN folder.files \cap DOMAIN csv_processor_mapping

\* what the processor of a matched file returns or raises
Yield(f) == process(csv_processor_mapping[f], folder.files[f])

\* the number of transactions a file has contributed once the loop is over
Contribution(f) ==
    IF f \in MatchedFiles \ failed THEN Len(Yield(f).value) ELSE 0

\* the number of times x occurs in seq
Count(seq, x) == Cardinality({i \in 1..Len(seq) : seq[i] = x})

\* the transaction a row of combined_data was made from
RawOf(row) == Transaction(row.date, row.raw_description, row.amount)

\* the folder is absent, no file of it is registered, or every registered
\* file of it fails or gives no transaction
NoData ==
    \/ ~folder.exists
    \/ MatchedFiles = {}
    \/ \A f \in MatchedFiles : ~Yield(f).ok \/ Yield(f).value = <<>>

C18_FatalExactlyWhenNoData ==
    /\ phase = "fatal" => (NoData /\ out = <<>> /\ calls = <<>> /\ combined_data = <<>>)
    /\ NoData => (phase \in {"start", "files", "fatal"} /\ pc = "idle" /\ calls = <<>>)
    /\ ~NoData => (phase # "fatal" /\ phase # "raised" /\ pc # "raised")
    /\ phase = "done" => (out # <<>> /\ Len(out) = Len(combined_data))

\* C19: no error but the fatal ValueError for a folder without data leaves
\* load_and_process_data: no step of it ends in an exception that is not
\* handled, whether in a processor, in the load or the write of the rule
\* store, at the prompt, or while a row is normalized or classified.
C19_OnlyNoDataEscapes ==
    /\ phase # "raised"
    /\ pc # "raised"
    /\ phase = "fatal" => NoData

\* C20: the rows of the merged data are in ascending order of date, whatever
\* the order in which the files were processed (rows without a date, which
\* pandas sorts last, after all others), and categorize is called for them in
\* that order, one call for each row.
C20_SortedByDate ==
    /\ phase \in {"classify", "done"} =>
          /\ \A i, j \in 1..Len(combined_data) :
                i < j =>
                   /\ (combined_data[i].date.tag = "date" /\ combined_data[j].date.tag = "date")
                         => combined_data[i].date.value <= combined_data[j].date.value
                   /\ combined_data[i].date.tag = "nat" => combined_data[j].date.tag = "nat"
          /\ Len(calls) <= Len(combined_data)
          /\ \A n \in 1..Len(calls) : calls[n] = combined_data[n].date
          /\ Len(out) <= Len(calls)
          /\ Len(calls) <= Len(out) + 1
    /\ phase = "done" => Len(calls) = Len(combined_data)

\* C20 witness: the run has classified, in the order of their dates 1, 2, 2
\* and 3, the rows of three files whose transactions were dated 3, 2, 2 and 1
\* in the order in which they were read
C20_Witness ==
    /\ phase = "done"
    /\ Len(all_data) = 4
    /\ [i \in 1..4 |-> all_data[i].date.value] = <<3, 2, 2, 1>>
    /\ [i \in 1..4 |-> calls[i].value] = <<1, 2, 2, 3>>
    /\ Len(out) = 4

-----------------------------------------------------------------------------
(* Properties of the rule store across runs *)

\* C21: when the run before this one ended with every fallback answered by a
\* selection and every write completed, this run, over the same folder and
\* with the rule store that run left, enters no fallback, learns nothing,
\* leaves the rule store as it found it and gives every transaction the
\* category the run before gave it.
C21_SecondRunRepeatsFirst ==
    (previous.done /\ previous.clean)
    => /\ pc \notin {"prompt", "write", "return"}
       /\ learnLog = <<>>
       /\ store = previous.store
       /\ CategoryOfRows \subseteq previous.categories

-----------------------------------------------------------------------------
(* Properties of extract_merchant_name *)

\* the rows of the merged data have just been given their merchant names
Normalized == phase = "classify" /\ calls = <<>>

\* C22: the merchant name of every row has at most two words separated by
\* whitespace, whether a known merchant was recognized or the name was made
\* by the heuristic for unknown merchants.
C22_AtMostTwoWords ==
    Normalized =>
        \A i \in 1..Len(combined_data) :
            Len(Split(combined_data[i].description.text)) <= 2

\* the known-merchant rules whose texts are in the lowercased description
RulesHolding(raw_description) ==
    {n \in 1..Len(KnownMerchants) :
        /\ \A a \in KnownMerchants[n].all : Contains(Lower(raw_description), a)
        /\ KnownMerchants[n].any # {} =>
              \E a \in KnownMerchants[n].any : Contains(Lower(raw_description), a)}

\* C23: the merchant name of a row whose lowercased description satisfies one
\* or more known-merchant rules is the name of the first of them in the order
\* of the chain, the later ones that hold notwithstanding; the heuristic for
\* unknown merchants gives the name only when no rule holds.
C23_FirstKnownMerchantWins ==
    Normalized =>
        \A i \in 1..Len(combined_data) :
            LET raw_description == combined_data[i].raw_description.text
                name == combined_data[i].description.text
                holding == RulesHolding(raw_description)
            IN  IF holding = {}
                THEN name = MerchantFallback(raw_description)
                ELSE \E n \in holding :
                        /\ \A m \in holding : n <= m
                        /\ name = KnownMerchants[n].name

\* C23 witness: the description "amazon tesla charge " satisfies the rule of
\* Tesla, the first of the chain, and that of Amazon, the third, whose text
\* comes first in the description; the merchant name is that of Tesla
C23_Witness ==
    /\ phase = "done"
    /\ Len(combined_data) = 1
    /\ combined_data[1].raw_description.text =
          <<"a", "m", "a", "z", "o", "n", " ",
            "t", "e", "s", "l", "a", " ", "c", "h", "a", "r", "g", "e", " ">>
    /\ Cardinality(RulesHolding(combined_data[1].raw_description.text)) = 2
    /\ combined_data[1].description.text =
          <<"T", "E", "S", "L", "A", " ", "C", "h", "a", "r", "g", "i", "n", "g">>

\* the token has a digit and one of the separators "-", ".", "/"
PhoneNumberLike(token) ==
    /\ \E i \in 1..Len(token) : token[i] \in Digits
    /\ \E i \in 1..Len(token) : token[i] \in {"-", ".", "/"}

\* the token is two uppercase letters
TwoLetterCode(token) ==
    /\ Len(token) = 2
    /\ \A i \in 1..2 : token[i] \in DOMAIN LowerOf

\* the token is a stop-word
StopWord(token) == Lower(token) \in MerchantSkipWords

\* the tokens the claim has discarded
DiscardedAsStated(token) ==
    PhoneNumberLike(token) \/ TwoLetterCode(token) \/ StopWord(token)

\* the tokens the heuristic discards: those, and the tokens of one character
Discarded(token) == DiscardedAsStated(token) \/ Len(token) <= 1

SurvivesAsStated(token) == ~DiscardedAsStated(token)

Survives(token) == ~Discarded(token)

\* the first two of the tokens, title-cased and joined by a space
FirstTwoTitled(tokens) ==
    JoinSpace([i \in 1..(IF Len(tokens) < 2 THEN Len(tokens) ELSE 2) |-> Title(tokens[i])])

\* the tokens of the description without its payment-processor prefixes
TokensOf(raw_description) ==
    Split(RemoveMerchantPrefixes(Strip(raw_description), MerchantPrefixes))

\* the reference of C24 as stated
ReferenceAsStated(raw_description) ==
    LET tokens == TokensOf(raw_description)
        surviving == SelectSeq(tokens, SurvivesAsStated)
        first_raw_token == IF tokens # <<>> THEN tokens[1]
                           ELSE IF Split(raw_description) # <<>>
                                THEN Split(raw_description)[1]
                                ELSE <<>>
    IN  IF surviving # <<>> THEN FirstTwoTitled(surviving)
        ELSE TakeFirst(Title(first_raw_token), 15)

\* the reference of C24 amended
Reference(raw_description) ==
    LET tokens == TokensOf(raw_description)
        surviving == SelectSeq(tokens, Survives)
    IN  IF surviving # <<>> THEN FirstTwoTitled(surviving)
        ELSE IF tokens # <<>> THEN TakeFirst(Title(tokens[1]), 15)
        ELSE TakeFirst(Title(raw_description), 15)

-----------------------------------------------------------------------------
(* Properties of the amounts *)

\* the number in a cell of a spend or credit column, an empty cell being 0
ValueOrZero(cell) == IF cell.tag = "nan" THEN 0 ELSE cell.value

\* C25: the amount of every transaction the Citi processor emits is the Debit
\* value plus the Credit value of its row, an empty cell counting as 0, times
\* the multiplier of the processor; the amount of every transaction of any
\* processor is the amount of its row times the multiplier configured for the
\* processor, so the Smartly processor emits every amount negated.
C25_AmountIsSignedSum ==
    [][ \A f \in DOMAIN csv_processor_mapping :
          (IsProcessed(f) /\ f \notin failed')
          => LET processor == csv_processor_mapping[f]
                 kept == RowsNotSkipped(processor, folder.files[f].rows)
             IN  /\ Len(Added) = Len(kept)
                 /\ \A i \in 1..Len(kept) :
                       /\ f = CitiName =>
                             Added[i].amount =
                                NumCell((ValueOrZero(kept[i]["Debit"]) +
                                         ValueOrZero(kept[i]["Credit"]))
                                        * processor.amount_multiplier)
                       /\ (f # CitiName /\ kept[i][processor.amount_column_name].tag = "num") =>
                             Added[i].amount =
                                NumCell(kept[i][processor.amount_column_name].value
                                        * processor.amount_multiplier)
                       /\ (f = SmartlyName /\ kept[i]["Amount"].tag = "num") =>
                             Added[i].amount.value = 0 - kept[i]["Amount"].value
                       /\ (f = CostcoName /\ kept[i]["amount"].tag = "num") =>
                             Added[i].amount.value = kept[i]["amount"].value
      ]_vars

\* C25 witness: the refund of the Citi file, which has a Credit of -20 and no
\* Debit, is emitted as -20, and the purchase of the Smartly file, which the
\* bank lists as -15, is emitted as 15
C25_Witness ==
    /\ folder.exists
    /\ {CitiName, SmartlyName} \subseteq DOMAIN folder.files
    /\ folder.files[CitiName] = CitiRefund
    /\ folder.files[SmartlyName] = SmartlyPurchases
    /\ failed = {}
    /\ Len(all_data) = 2
    /\ \E i, j \in 1..2 :
          /\ all_data[i].description = TextCell(<<"T", "e", "a", " ", "S", "t", "o", "r", "e">>)
          /\ all_data[i].amount = NumCell(-20)
          /\ all_data[j].description = TextCell(<<"Z", "e", "n", " ", "S", "p", "a">>)
          /\ all_data[j].amount = NumCell(15)

-----------------------------------------------------------------------------
(* Properties of the Costco records *)

\* row i of the merged data comes from the Costco processor, which puts
\* "COSTCO-" before the description, and its amount is above 100
CostcoRecordAbove100(i) ==
    /\ combined_data[i].raw_description.tag = "str"
    /\ StartsWith(combined_data[i].raw_description.text,
                  <<"C", "O", "S", "T", "C", "O", "-">>)
    /\ combined_data[i].amount.tag = "num"
    /\ combined_data[i].amount.value > 100

\* C26: every record of the Costco processor with an amount above 100 has a
\* merchant name that still starts, letters compared without regard to case,
\* with "costco-", and its category, once it has one, is "Shopping".
C26_CostcoRecordIsShopping ==
    phase \in {"classify", "done"} =>
        \A i \in 1..Len(combined_data) :
            CostcoRecordAbove100(i)
            => /\ StartsWith(Lower(combined_data[i].description.text), CostcoTag)
               /\ i <= Len(out) => out[i] = "Shopping"

-----------------------------------------------------------------------------
(* Properties of extract_key_term_for_config *)

\* C27: the keyword a learning step derives from the merchant name of the
\* call is not empty, is not made of whitespace only, and is a
\* case-insensitive substring of that merchant name.
C27_KeyTermMatchesMerchant ==
    pc \in {"write", "return"}
    => /\ selected.key_term # <<>>
       /\ Strip(selected.key_term) # <<>>
       /\ Contains(Lower(call.description), Lower(selected.key_term))

-----------------------------------------------------------------------------
(* Properties of the RuleSet over a run *)

\* the number of keywords of a RuleSet
RECURSIVE CountKeywords(_)
CountKeywords(cats) ==
    IF cats = <<>> THEN 0
    ELSE Len(Head(cats).keywords) + CountKeywords(Tail(cats))

\* C28: over the calls of a run the RuleSet only grows.  Every step keeps the
\* categories it found, in place, and the keywords of each; it keeps
\* default_category; it adds at most one keyword.  The RuleSet changes only in
\* the step of the fallback that selects a category, only in the list of that
\* category, and a call takes that step at most once: after it the call
\* writes and returns without going back to the prompt.
C28_RuleSetOnlyGrows ==
    [][ LET old == categorization_config
            new == categorization_config'
        IN  /\ new.isNone = old.isNone
            /\ new.hasDefault = old.hasDefault
            /\ new.default_category = old.default_category
            /\ Len(new.categories) \in {Len(old.categories), Len(old.categories) + 1}
            /\ \A n \in 1..Len(old.categories) :
                  /\ new.categories[n].name = old.categories[n].name
                  /\ IsPrefix(old.categories[n].keywords, new.categories[n].keywords)
            /\ CountKeywords(new.categories) <= CountKeywords(old.categories) + 1
            /\ new # old
                  => /\ pc = "prompt"
                     /\ pc' \in {"write", "return"}
                     /\ \A n \in 1..Len(new.categories) :
                           new.categories[n].name # selected'.category
                              => /\ n <= Len(old.categories)
                                 /\ new.categories[n] = old.categories[n]
            /\ pc \in {"write", "return"} => (pc' # "prompt" /\ new = old)
      ]_vars

\* C28 witness: two calls of a run over the stored RuleSet have each learned
\* a keyword, for two categories; the RuleSet holds the stored keywords and
\* the two learned ones, and the default_category of the file
C28_Witness ==
    /\ Len(learnLog) = 2
    /\ learnLog[1].category # learnLog[2].category
    /\ pc = "return"
    /\ KeywordsOf(load_categorization_config(StoredDoc))
          \subseteq KeywordsOf(categorization_config)
    /\ Cardinality(KeywordsOf(categorization_config)) =
          Cardinality(KeywordsOf(load_categorization_config(StoredDoc))) + 2
    /\ \A n \in 1..2 :
          <<learnLog[n].category, Str(learnLog[n].key_term)>>
             \in KeywordsOf(categorization_config)
    /\ categorization_config.default_category = "Misc"

-----------------------------------------------------------------------------
(* Properties of a write that succeeds after writes that failed *)

\* the pairs (category, keyword) learned so far in the run
Learned ==
    {<<learnLog[n].category, Str(learnLog[n].key_term)>> : n \in 1..Len(learnLog)}

\* C29: a write of a learning step that succeeds leaves in the file the whole
\* RuleSet in memory: the file reads back as that RuleSet, it holds every
\* keyword learned in the run so far and every keyword that was in memory
\* only before the write, so that no keyword is in memory only after it; and
\* when there was no file, the run having started from the built-in
\* defaults, the file holds the default categories with their keywords and
\* the default_category of the defaults.
C29_SuccessfulWriteStoresAll ==
    [][ (pc = "write" /\ wrote' = "ok")
        => \A loaded \in {load_categorization_config(store')} :
               /\ loaded = categorization_config'
               /\ Learned' \subseteq KeywordsOf(loaded)
               /\ \A before \in {load_categorization_config(store)} :
                     KeywordsOf(categorization_config) \ KeywordsOf(before)
                        \subseteq KeywordsOf(loaded)
               /\ KeywordsOf(categorization_config') \ KeywordsOf(loaded) = {}
               /\ store = MissingFile
                     => /\ KeywordsOf(DefaultConfig) \subseteq KeywordsOf(loaded)
                        /\ \A n \in 1..Len(DefaultConfig.categories) :
                              loaded.categories[n].name = DefaultConfig.categories[n].name
                        /\ loaded.hasDefault
                        /\ loaded.default_category = DefaultConfig.default_category
      ]_vars

\* C29 witness: a run started without a file has learned a keyword for each
\* of its first two rows; the write of the first failed, the write of the
\* second has succeeded, and the file holds the defaults and both keywords
C29_Witness ==
    /\ folder # NoFolder
    /\ phase = "classify"
    /\ Len(out) = 1
    /\ Len(learnLog) = 2
    /\ Cardinality(Learned) = 2
    /\ ~clean
    /\ pc = "return"
    /\ wrote = "ok"
    /\ Learned \subseteq KeywordsOf(load_categorization_config(store))
    /\ KeywordsOf(DefaultConfig) \subseteq KeywordsOf(load_categorization_config(store))

-----------------------------------------------------------------------------
(* Properties of a file whose processor raises *)

\* the rows of a readable file after the preparation of its processor
Prepared(f) == prepare_dataframe(csv_processor_mapping[f], folder.files[f])

\* the prepared rows of a file that its processor does not skip
Kept(f) == RowsNotSkipped(csv_processor_mapping[f], Prepared(f).value.rows)

\* the file cannot be read, its preparation raises, or the extraction raises
\* on one of the rows that are not skipped
FailsOnSomeRow(f) ==
    \/ ~folder.files[f].readable
    \/ ~Prepared(f).ok
    \/ \E i \in 1..Len(Kept(f)) :
          ~extract_transaction_data(csv_processor_mapping[f], Kept(f)[i]).ok

\* the number of transactions a matched file is to contribute: one for each
\* row not skipped, or none when the file fails
WholeOrNothing(f) ==
    IF f \in MatchedFiles /\ ~FailsOnSomeRow(f) THEN Len(Kept(f)) ELSE 0

\* C30: a matched file contributes all the transactions of its rows that are
\* not skipped, or none.  The step that processes a file which cannot be
\* read, whose preparation raises or one of whose rows raises adds nothing
\* to all_data, also when rows before that row were read; the step that
\* processes any other file adds the transaction of every row not skipped;
\* and the data load_and_process_data returns has one row for each
\* transaction of the files that did not fail, and no other row.
C30_FileIsAllOrNothing ==
    /\ [][ \A f \in DOMAIN csv_processor_mapping :
             IsProcessed(f)
             => /\ FailsOnSomeRow(f)
                   => (Added = <<>> /\ all_data' = all_data /\ f \in failed')
                /\ ~FailsOnSomeRow(f)
                   => /\ f \notin failed'
                      /\ Len(Added) = Len(Kept(f))
                      /\ \A i \in 1..Len(Kept(f)) :
                            Added[i] =
                              extract_transaction_data(csv_processor_mapping[f],
                                                       Kept(f)[i]).value
        ]_vars
    /\ [](phase = "done" =>
            /\ \A f \in MatchedFiles : f \in failed <=> FailsOnSomeRow(f)
            /\ Len(combined_data) =
                  WholeOrNothing(CitiName) + WholeOrNothing(SmartlyName)
                     + WholeOrNothing(CostcoName))

\* C30 witness: the second row of the Smartly file raised after the first was
\* read; the run has returned the transactions of the Citi file only, and the
\* merchant of the first Smartly row is in none of them
C30_Witness ==
    /\ phase = "done"
    /\ folder.exists
    /\ MatchedFiles = {CitiName, SmartlyName}
    /\ folder.files[SmartlyName] = SmartlyBadAmount
    /\ failed = {SmartlyName}
    /\ ~should_skip_transaction(csv_processor_mapping[SmartlyName],
                                Prepared(SmartlyName).value.rows[1])
    /\ extract_transaction_data(csv_processor_mapping[SmartlyName],
                                Prepared(SmartlyName).value.rows[1]).ok
    /\ Len(combined_data) = Len(Kept(CitiName))
    /\ Len(combined_data) >= 1
    /\ \A i \in 1..Len(combined_data) :
          combined_data[i].raw_description # TextCell(<<"U", "B", "E", "R">>)

=============================================================================
